---- MODULE Spec2Model ----
(***************************************************************************)
(* ContableMax: the persisted schema with its row-level-security policies  *)
(* and referential actions (the SQL migration), and the screens that call  *)
(* it (Register, Login, ForgotPassword, Profile, Dashboard, Tasks,         *)
(* TaskForm, Clients, ClientForm).                                         *)
(*                                                                         *)
(* Rows keep the columns the checked properties read: clients(user_id,     *)
(* name) and tasks(user_id, client_id, title, due_date, status).  The      *)
(* other columns (cpf_cnpj, person_type, email, phone, description,        *)
(* task_type, created_at) are plain payload written and read exactly like  *)
(* name / title.                                                           *)
(***************************************************************************)
EXTENDS Integers, Sequences, FiniteSets, TLC

VARIABLES
  authUsers,    \* auth.users: the identities that exist
  goneUsers,    \* identities that were deleted (a UUID is never reused)
  profiles,     \* public.profiles: the set of rows
  clients,      \* public.clients:  id -> row
  tasks,        \* public.tasks:    id -> row
  nextClient,   \* gen_random_uuid() for clients: the next unused id
  nextTask,     \* gen_random_uuid() for tasks: the next unused id
  insertedBy,   \* history: [clients: id -> caller, tasks: id -> caller]
  now,          \* the current instant, in hours since 1970-01-01T00:00Z
  ui,           \* the browser sessions: session -> screen state
  last          \* history: the last operation, its caller and its rows

vars == <<authUsers, goneUsers, profiles, clients, tasks, nextClient,
          nextTask, insertedBy, now, ui, last>>

dbVars == <<authUsers, goneUsers, profiles, clients, tasks, nextClient,
            nextTask, insertedBy>>

----------------------------------------------------------------------------
(* Bounds of the model *)

MaxClients == 2
MaxTasks == 2
MaxTicks == 1
MaxInflight == 1
MaxResponses == 2

Users == {"u1", "u2"}
\* the browser tabs, and the tabs that are followed through every screen
Tabs == {"s1", "s2"}
Sessions == {"s1"}
ClientIds == 1..MaxClients
TaskIds == 1..MaxTasks
ClientNames == {"Ana"}
\* display names: the one typed at sign-up and the one typed in the profile form
PersonNames == {"Ana Lima", "Ana L."}
EmailOf == [u \in Users |-> IF u = "u1" THEN "u1@mail.com" ELSE "u2@mail.com"]
Titles == {"IRPF 2024"}

\* 2024-12-31 and 2025-01-01 as days since 1970-01-01
DueDates == {20088, 20089}
\* the clock starts at 2024-12-31T13:00Z and advances in steps of 12 hours
ClockStart == 20088 * 24 + 13
ClockStep == 6 + 6

----------------------------------------------------------------------------
(* Schema *)

NULL == 0
NoUser == "none"
\* SQL NULL of a text value
NullText == "null"

AccountType == {"contador", "escritorio"}
TaskStatus == {"pendente", "concluida", "atrasada"}
DefaultTaskStatus == "pendente"

Patch(row, p) == [k \in DOMAIN row |-> IF k \in DOMAIN p THEN p[k] ELSE row[k]]

Without(f, ids) == [k \in DOMAIN f \ ids |-> f[k]]

\* the values of profiles.id
ProfileIds(ps) == {p.id : p \in ps}

----------------------------------------------------------------------------
(* Row-level-security policies: uid is auth.uid() of the caller *)

\* the policy as if every client were visible to every user
ClientsSelectPolicy_All(uid, row) == TRUE
ClientsSelectPolicy(uid, row) == uid = row.user_id
ClientsInsertPolicy(uid, row) == uid = row.user_id
ClientsUpdatePolicy(uid, row) == uid = row.user_id
ClientsDeletePolicy(uid, row) == uid = row.user_id

TasksSelectPolicy(uid, row) == uid = row.user_id
TasksInsertPolicy(uid, row) == uid = row.user_id
TasksUpdatePolicy(uid, row) == uid = row.user_id
TasksDeletePolicy(uid, row) == uid = row.user_id

\* An UPDATE policy that gives only USING applies the same expression to
\* the new row (WITH CHECK defaults to USING).
ClientsUpdateCheck(uid, row) == ClientsUpdatePolicy(uid, row)
\* the policy as if the new row were not checked
TasksUpdateCheck_Unchecked(uid, row) == TRUE
TasksUpdateCheck(uid, row) == TasksUpdatePolicy(uid, row)

\* Row-level security is enabled on profiles and no policy is declared FOR
\* DELETE: no row passes.
ProfilesSelectPolicy(uid, row) == uid = row.id
ProfilesUpdatePolicy(uid, row) == uid = row.id
ProfilesInsertPolicy(uid, row) == uid = row.id
\* the policy as if users could delete their own profile
ProfilesDeletePolicy_Own(uid, row) == uid = row.id
ProfilesDeletePolicy(uid, row) == FALSE
ProfilesUpdateCheck(uid, row) == ProfilesUpdatePolicy(uid, row)

----------------------------------------------------------------------------
(* Foreign keys.  Referential checks and actions run with the table        *)
(* owner's rights: row-level security does not apply to them.              *)

ClientFkOk(cs, ps, row) == row.user_id \in ProfileIds(ps)

TaskFkOk(cs, ps, row) ==
  /\ row.user_id \in ProfileIds(ps)
  /\ row.client_id = NULL \/ row.client_id \in DOMAIN cs

\* the reference as if declared ON DELETE CASCADE
TasksAfterClientDelete_Cascade(ts, gone) ==
  [t \in {x \in DOMAIN ts : ts[x].client_id \notin gone} |-> ts[t]]

\* tasks.client_id ... ON DELETE SET NULL
TasksAfterClientDelete(ts, gone) ==
  [t \in DOMAIN ts |->
     IF ts[t].client_id \in gone THEN [ts[t] EXCEPT !.client_id = NULL]
     ELSE ts[t]]

\* clients.user_id / tasks.user_id ... ON DELETE CASCADE
ClientsOfProfiles(cs, gone) == {c \in DOMAIN cs : cs[c].user_id \in gone}
TasksOfProfiles(ts, gone) == {t \in DOMAIN ts : ts[t].user_id \in gone}

----------------------------------------------------------------------------
(* Statements, as the backend runs them for a caller.  Each gives the      *)
(* outcome: err (the statement failed and changed nothing), the new        *)
(* tables, and the rows it returned or touched.                            *)

SelectClients(uid) == {c \in DOMAIN clients : ClientsSelectPolicy(uid, clients[c])}
SelectTasks(uid) == {t \in DOMAIN tasks : TasksSelectPolicy(uid, tasks[t])}

InsertClient(uid, row) ==
  IF ClientsInsertPolicy(uid, row) /\ ClientFkOk(clients, profiles, row)
  THEN [err |-> FALSE, clients |-> clients @@ (nextClient :> row), rows |-> {nextClient}]
  ELSE [err |-> TRUE, clients |-> clients, rows |-> {}]

InsertTask(uid, row) ==
  IF TasksInsertPolicy(uid, row) /\ TaskFkOk(clients, profiles, row)
  THEN [err |-> FALSE, tasks |-> tasks @@ (nextTask :> row), rows |-> {nextTask}]
  ELSE [err |-> TRUE, tasks |-> tasks, rows |-> {}]

\* update(p).eq('id', id)
UpdateClient(uid, id, p) ==
  LET hit == {c \in DOMAIN clients : c = id /\ ClientsUpdatePolicy(uid, clients[c])}
      new == [c \in DOMAIN clients |-> IF c \in hit THEN Patch(clients[c], p) ELSE clients[c]]
      ok  == \A c \in hit : ClientsUpdateCheck(uid, new[c]) /\ ClientFkOk(clients, profiles, new[c])
  IN  IF ok THEN [err |-> FALSE, clients |-> new, rows |-> hit]
      ELSE [err |-> TRUE, clients |-> clients, rows |-> {}]

UpdateTask(uid, id, p) ==
  LET hit == {t \in DOMAIN tasks : t = id /\ TasksUpdatePolicy(uid, tasks[t])}
      new == [t \in DOMAIN tasks |-> IF t \in hit THEN Patch(tasks[t], p) ELSE tasks[t]]
      ok  == \A t \in hit : TasksUpdateCheck(uid, new[t]) /\ TaskFkOk(clients, profiles, new[t])
  IN  IF ok THEN [err |-> FALSE, tasks |-> new, rows |-> hit]
      ELSE [err |-> TRUE, tasks |-> tasks, rows |-> {}]

\* delete().eq('id', id)
DeleteClient(uid, id) ==
  LET hit == {c \in DOMAIN clients : c = id /\ ClientsDeletePolicy(uid, clients[c])}
  IN  [err |-> FALSE, clients |-> Without(clients, hit),
       tasks |-> TasksAfterClientDelete(tasks, hit), rows |-> hit]

DeleteTask(uid, id) ==
  LET hit == {t \in DOMAIN tasks : t = id /\ TasksDeletePolicy(uid, tasks[t])}
  IN  [err |-> FALSE, tasks |-> Without(tasks, hit), rows |-> hit]

SelectProfiles(uid) == {r \in profiles : ProfilesSelectPolicy(uid, r)}

\* profiles.id UUID PRIMARY KEY
\* the key as if id were not declared unique
ProfilesPkFree_NoKey(ps, row) == TRUE
ProfilesPkFree(ps, row) == row.id \notin ProfileIds(ps)
\* profiles.id ... REFERENCES auth.users(id)
ProfileFkOk(us, row) == row.id \in us

InsertProfile(uid, row) ==
  IF /\ ProfilesInsertPolicy(uid, row)
     /\ ProfilesPkFree(profiles, row)
     /\ ProfileFkOk(authUsers, row)
  THEN [err |-> FALSE, profiles |-> profiles \cup {row}, rows |-> {row.id}]
  ELSE [err |-> TRUE, profiles |-> profiles, rows |-> {}]

\* update(p).eq('id', id)
UpdateProfile(uid, id, p) ==
  LET hit  == {r \in profiles : r.id = id /\ ProfilesUpdatePolicy(uid, r)}
      new  == {Patch(r, p) : r \in hit}
      rest == profiles \ hit
      ok   == /\ \A r \in new : ProfilesUpdateCheck(uid, r) /\ ProfileFkOk(authUsers, r)
              /\ \A r \in new : r.id = id \/ ProfilesPkFree(rest, r)
              \* clients.user_id and tasks.user_id reference the old id
              /\ \A r \in hit : Patch(r, p).id # r.id =>
                    /\ ClientsOfProfiles(clients, {r.id}) = {}
                    /\ TasksOfProfiles(tasks, {r.id}) = {}
  IN  IF ok THEN [err |-> FALSE, profiles |-> rest \cup new, rows |-> {r.id : r \in hit}]
      ELSE [err |-> TRUE, profiles |-> profiles, rows |-> {}]

\* delete().eq('id', id)
DeleteProfile(uid, id) ==
  LET hit == {r \in profiles : r.id = id /\ ProfilesDeletePolicy(uid, r)}
  IN  [err |-> FALSE, profiles |-> profiles \ hit, rows |-> {r.id : r \in hit}]

\* raw_user_meta_data ->> key
MetaText(meta, key) == IF key \in DOMAIN meta THEN meta[key] ELSE NullText
Coalesce(a, b) == IF a # NullText THEN a ELSE b
\* text :: account_type raises for a label that is not in the enum
CastFails(text) == text # NullText /\ text \notin AccountType

\* the trigger as if the default category were the firm
HandleNewUser_DefaultFirm(new, fault) ==
  LET t   == MetaText(new.raw_user_meta_data, "account_type")
      row == [id |-> new.id,
              name |-> Coalesce(MetaText(new.raw_user_meta_data, "name"), new.email),
              email |-> new.email,
              account_type |-> Coalesce(t, "escritorio"),
              created_at |-> now, last_login |-> now]
  IN  IF CastFails(t) \/ fault \/ ~ProfilesPkFree(profiles, row)
      THEN [err |-> TRUE, profiles |-> profiles]
      ELSE [err |-> FALSE, profiles |-> profiles \cup {row}]

\* the trigger as if the name were always the e-mail
HandleNewUser_NameIsEmail(new, fault) ==
  LET t   == MetaText(new.raw_user_meta_data, "account_type")
      row == [id |-> new.id, name |-> new.email, email |-> new.email,
              account_type |-> Coalesce(t, "contador"),
              created_at |-> now, last_login |-> now]
  IN  IF CastFails(t) \/ fault \/ ~ProfilesPkFree(profiles, row)
      THEN [err |-> TRUE, profiles |-> profiles]
      ELSE [err |-> FALSE, profiles |-> profiles \cup {row}]

\* handle_new_user() for the row NEW of auth.users.  fault: the INSERT is
\* refused by the database for a reason outside the statement.  created_at
\* and last_login take their column default now().
HandleNewUser(new, fault) ==
  LET t   == MetaText(new.raw_user_meta_data, "account_type")
      row == [id |-> new.id,
              name |-> Coalesce(MetaText(new.raw_user_meta_data, "name"), new.email),
              email |-> new.email,
              account_type |-> Coalesce(t, "contador"),
              created_at |-> now, last_login |-> now]
  IN  IF CastFails(t) \/ fault \/ ~ProfilesPkFree(profiles, row)
      THEN [err |-> TRUE, profiles |-> profiles]
      ELSE [err |-> FALSE, profiles |-> profiles \cup {row}]

\* the insert as if a failing trigger did not undo it
InsertAuthUser_Kept(u, meta, fault) ==
  LET new == [id |-> u, email |-> EmailOf[u], raw_user_meta_data |-> meta]
      r   == HandleNewUser(new, fault)
  IN  [err |-> r.err, authUsers |-> authUsers \cup {u}, profiles |-> r.profiles]

\* INSERT INTO auth.users with the AFTER INSERT trigger on_auth_user_created,
\* one transaction: an exception in the trigger undoes the insert
InsertAuthUser(u, meta, fault) ==
  LET new == [id |-> u, email |-> EmailOf[u], raw_user_meta_data |-> meta]
      r   == HandleNewUser(new, fault)
  IN  IF r.err THEN [err |-> TRUE, authUsers |-> authUsers, profiles |-> profiles]
      ELSE [err |-> FALSE, authUsers |-> authUsers \cup {u}, profiles |-> r.profiles]

----------------------------------------------------------------------------
(* Dates.  A DATE column travels as the text YYYY-MM-DD, and the screens   *)
(* take "today" from new Date().toISOString().split('T')[0]: the calendar  *)
(* date of the instant in UTC.  Text is a sequence of character codes and  *)
(* is compared as JavaScript compares strings, code unit by code unit.     *)

\* proleptic Gregorian date of a day number (days since 1970-01-01)
CivilFromDays(z) ==
  LET zz   == z + 719468
      era  == zz \div 146097
      doe  == zz - era * 146097
      yoe  == (doe - doe \div 1460 + doe \div 36524 - doe \div 146096) \div 365
      doy  == doe - (365 * yoe + yoe \div 4 - yoe \div 100)
      mp   == (5 * doy + 2) \div 153
      d    == doy - (153 * mp + 2) \div 5 + 1
      m    == IF mp < 10 THEN mp + 3 ELSE mp - 9
      y    == yoe + era * 400 + (IF m <= 2 THEN 1 ELSE 0)
  IN  [y |-> y, m |-> m, d |-> d]

Digit(n) == 48 + n
Hyphen == 45

\* YYYY-MM-DD
IsoDateText(day) ==
  LET c == CivilFromDays(day)
  IN  << Digit(c.y \div 1000), Digit((c.y \div 100) % 10), Digit((c.y \div 10) % 10),
         Digit(c.y % 10), Hyphen, Digit(c.m \div 10), Digit(c.m % 10), Hyphen,
         Digit(c.d \div 10), Digit(c.d % 10) >>

\* day number of a proleptic Gregorian date
DaysFromCivil(y, m, d) ==
  LET yy  == IF m <= 2 THEN y - 1 ELSE y
      era == yy \div 400
      yoe == yy - era * 400
      mp  == IF m > 2 THEN m - 3 ELSE m + 9
      doy == (153 * mp + 2) \div 5 + d - 1
      doe == yoe * 365 + yoe \div 4 - yoe \div 100 + doy
  IN  era * 146097 + doe - 719468

\* the DATE column's input conversion of YYYY-MM-DD
DateIn(text) ==
  LET v(i) == text[i] - 48
  IN  DaysFromCivil(v(1) * 1000 + v(2) * 100 + v(3) * 10 + v(4),
                    v(6) * 10 + v(7), v(9) * 10 + v(10))

\* a < b on strings
StrLess(a, b) ==
  \E i \in 1..(Len(a) + 1) :
    /\ \A j \in 1..(i - 1) : j <= Len(b) /\ a[j] = b[j]
    /\ i <= Len(b)
    /\ i > Len(a) \/ a[i] < b[i]

\* new Date().toISOString().split('T')[0]
UtcDay(instant) == instant \div 24
TodayText == IsoDateText(UtcDay(now))

----------------------------------------------------------------------------
(* Screens.  A session is one browser tab; the state of a screen is lost   *)
(* when the tab navigates to another screen.                               *)

\* useState<DashboardStats> of the Dashboard
NoStats == [totalClients |-> 0, pendingTasks |-> 0, todayTasks |-> 0, overdueTasks |-> 0]

\* no call of a screen that was left is still on its way
NoCall == [op |-> "none", id |-> NULL]

Screen(user, screen) ==
  [screen |-> screen, user |-> user,
   tasks |-> << >>, filteredTasks |-> << >>, statusFilter |-> "all",
   effectPending |-> FALSE, filterToday |-> << >>, fetchPending |-> 0,
   clients |-> << >>, deleteId |-> NULL,
   formId |-> NULL, formClients |-> {}, loading |-> FALSE, fetching |-> FALSE,
   loadingPassword |-> FALSE, emailSent |-> FALSE, orphan |-> NoCall,
   responses |-> << >>, stats |-> NoStats,
   dash |-> [step |-> 0, today |-> 0, counts |-> NoStats]]

StatusFilters == {"all", "pendente", "concluida", "overdue"}

\* ids as a list ordered by key, ties in insertion order
OrderedBy(ids, key) ==
  CHOOSE q \in [1..Cardinality(ids) -> ids] :
    \A i, j \in DOMAIN q : i < j =>
      \/ key[q[i]] < key[q[j]]
      \/ key[q[i]] = key[q[j]] /\ q[i] < q[j]

\* a row of tasks as the backend returns it: the DATE as text
TaskItem(t) ==
  [id |-> t, title |-> tasks[t].title, status |-> tasks[t].status,
   due_date |-> IsoDateText(tasks[t].due_date), client_id |-> tasks[t].client_id]

\* from('tasks').select('*, clients(name)').order('due_date', { ascending: true })
FetchedTasks(uid) ==
  LET ids == SelectTasks(uid)
      q == OrderedBy(ids, [t \in ids |-> tasks[t].due_date])
  IN  [i \in 1..Cardinality(ids) |-> TaskItem(q[i])]

\* the place of a name in the order of names
NameRank(name) == CASE name = "Ana" -> 1 [] OTHER -> 2

\* from('clients').select('*').order('name')
FetchedClients(uid) ==
  LET ids == SelectClients(uid)
      q == OrderedBy(ids, [c \in ids |-> NameRank(clients[c].name)])
  IN  [i \in 1..Cardinality(ids) |-> [id |-> q[i], name |-> clients[q[i]].name]]

\* the badge as if a task due today were already late
Tasks_getStatusBadge_Inclusive(status, dueDate) ==
  LET today == TodayText
  IN  IF status = "concluida" THEN "Concluida"
      ELSE IF StrLess(dueDate, today) \/ dueDate = today THEN "Atrasada"
      ELSE "Pendente"

\* the badge as if the due date were looked at before the status
Tasks_getStatusBadge_DueFirst(status, dueDate) ==
  LET today == TodayText
  IN  IF StrLess(dueDate, today) THEN "Atrasada"
      ELSE IF status = "concluida" THEN "Concluida"
      ELSE IF dueDate = today THEN "Hoje"
      ELSE "Pendente"

\* Tasks.getStatusBadge; the badge is named by its text, "Concluida" standing
\* for the accented label
Tasks_getStatusBadge(status, dueDate) ==
  LET today == TodayText
  IN  IF status = "concluida" THEN "Concluida"
      ELSE IF StrLess(dueDate, today) THEN "Atrasada"
      ELSE IF dueDate = today THEN "Hoje"
      ELSE "Pendente"

\* Dashboard.getStatusBadge
Dashboard_getStatusBadge(status, dueDate) ==
  LET today == TodayText
  IN  IF status = "concluida" THEN "Concluida"
      ELSE IF StrLess(dueDate, today) THEN "Atrasada"
      ELSE IF dueDate = today THEN "Hoje"
      ELSE "Pendente"

\* the filter as if "overdue" looked at the due date only
FilterTasks_AnyStatus(list, statusFilter) ==
  IF statusFilter = "all" THEN list
  ELSE LET today == TodayText
       IN  IF statusFilter = "overdue"
           THEN SelectSeq(list, LAMBDA t : StrLess(t.due_date, today))
           ELSE SelectSeq(list, LAMBDA t : t.status = statusFilter)

\* the filter as if "overdue" were a persisted status
FilterTasks_Persisted(list, statusFilter) ==
  IF statusFilter = "all" THEN list
  ELSE IF statusFilter = "overdue"
       THEN SelectSeq(list, LAMBDA t : t.status = "atrasada")
       ELSE SelectSeq(list, LAMBDA t : t.status = statusFilter)

\* the filter effect of the Tasks screen
FilterTasks(list, statusFilter) ==
  IF statusFilter = "all" THEN list
  ELSE LET today == TodayText
       IN  IF statusFilter = "overdue"
           THEN SelectSeq(list, LAMBDA t : t.status = "pendente" /\ StrLess(t.due_date, today))
           ELSE SelectSeq(list, LAMBDA t : t.status = statusFilter)

----------------------------------------------------------------------------
(* Initial state: the migrated, empty database; every session signed out.  *)


Init ==
  /\ authUsers = {}
  /\ goneUsers = {}
  /\ profiles = {}
  /\ clients = << >>
  /\ tasks = << >>
  /\ nextClient = 1
  /\ nextTask = 1
  /\ insertedBy = [clients |-> << >>, tasks |-> << >>]
  /\ now = ClockStart
  /\ ui = [s \in Tabs |-> Screen(NoUser, "login")]
  /\ last = [op |-> "init", by |-> NoUser, sess |-> "none", rows |-> {}, err |-> FALSE,
             refs |-> {}, arg |-> NoUser, toast |-> "none", meta |-> << >>]

\* rows: the rows returned or touched; err: the statement failed; refs: the
\* tasks that referenced a deleted client; arg: the user_id the payload
\* carried; toast: the title of the notification the handler showed; meta:
\* the metadata of a sign-up
NoSession == "none"
NoToast == "none"

LastOf(s, op, by, rows, err, refs, arg, toast) ==
  [op |-> op, by |-> by, sess |-> s, rows |-> rows, err |-> err,
   refs |-> refs, arg |-> arg, toast |-> toast, meta |-> << >>]

Told(s, op, by, rows, err, refs, arg, toast) ==
  last' = LastOf(s, op, by, rows, err, refs, arg, toast)

DidIn(s, op, by, rows, err, refs, arg) ==
  Told(s, op, by, rows, err, refs, arg, NoToast)

Did(op, by, rows, err, refs, arg) == DidIn(NoSession, op, by, rows, err, refs, arg)

Refs(cs) == {t \in DOMAIN tasks : tasks[t].client_id \in cs}

PayloadOwner(p) == IF "user_id" \in DOMAIN p THEN p.user_id ELSE NoUser

----------------------------------------------------------------------------
(* Identities *)

\* the metadata bags of a sign-up: name and account_type, each optional, the
\* category possibly a label that is not in the enum
MetaTypes == {"escritorio", "firma"}
Metas ==
  {[k \in {} |-> NullText]}
    \cup [{"name"} -> {"Ana Lima"}]
    \cup [{"account_type"} -> MetaTypes]
    \cup [name : {"Ana Lima"}, account_type : MetaTypes]

\* what signUp(email, password, name, accountType) sends as metadata
SignUpMeta(name, accountType) == [name |-> name, account_type |-> accountType]

\* a sign-up call with any metadata
AuthSignUp(u, meta, fault) ==
  /\ u \notin authUsers /\ u \notin goneUsers
  /\ LET r == InsertAuthUser(u, meta, fault)
     IN  /\ authUsers' = r.authUsers
         /\ profiles' = r.profiles
         /\ last' = [LastOf(NoSession, "signUp", u, IF r.err THEN {} ELSE {u}, r.err, {},
                             IF fault THEN "fault" ELSE NoUser, NoToast)
                        EXCEPT !.meta = meta]
  /\ UNCHANGED <<goneUsers, clients, tasks, nextClient, nextTask, insertedBy, now, ui>>

\* a sign-up with the metadata the Register form sends by default
SignUp(u) == AuthSignUp(u, SignUpMeta("Ana Lima", "contador"), FALSE)

\* auth.users DELETE: profiles, then clients and tasks, go by ON DELETE CASCADE
DeleteIdentity(u) ==
  /\ u \in authUsers
  /\ LET goneC == ClientsOfProfiles(clients, {u})
         goneT == TasksOfProfiles(tasks, {u})
     IN  /\ authUsers' = authUsers \ {u}
         /\ goneUsers' = goneUsers \cup {u}
         /\ profiles' = {p \in profiles : p.id # u}
         /\ clients' = Without(clients, goneC)
         /\ tasks' = TasksAfterClientDelete(Without(tasks, goneT), goneC)
  /\ Did("deleteIdentity", u, {}, FALSE, Refs(ClientsOfProfiles(clients, {u})), NoUser)
  /\ UNCHANGED <<nextClient, nextTask, insertedBy, now, ui>>

----------------------------------------------------------------------------
(* Row CRUD calls made directly against the backend by an authenticated    *)
(* caller, with any payload.                                               *)

ClientRows == [user_id : Users, name : ClientNames]
ApiStatus == {"pendente", "atrasada"}
TaskRows == [user_id : Users, client_id : ClientIds \cup {NULL}, title : Titles,
             due_date : {20088}, status : {DefaultTaskStatus}]

\* one column, or the columns the forms send together with user_id
ClientPatches == [{"user_id"} -> Users] \cup [user_id : Users, name : ClientNames]
TaskPatches ==
  [{"user_id"} -> Users] \cup [{"client_id"} -> ClientIds \cup {NULL}]
    \cup [{"status"} -> ApiStatus] \cup [user_id : Users, title : Titles]

ApiSelectClients(uid) ==
  /\ uid \in authUsers
  /\ Did("selectClients", uid, SelectClients(uid), FALSE, {}, NoUser)
  /\ UNCHANGED <<dbVars, now, ui>>

ApiSelectTasks(uid) ==
  /\ uid \in authUsers
  /\ Did("selectTasks", uid, SelectTasks(uid), FALSE, {}, NoUser)
  /\ UNCHANGED <<dbVars, now, ui>>

ApiInsertClient(uid, row) ==
  /\ uid \in authUsers
  /\ nextClient <= MaxClients
  /\ LET r == InsertClient(uid, row)
     IN  /\ clients' = r.clients
         /\ nextClient' = IF r.err THEN nextClient ELSE nextClient + 1
         /\ insertedBy' = IF r.err THEN insertedBy
                          ELSE [insertedBy EXCEPT !.clients = @ @@ (nextClient :> uid)]
         /\ Did("insertClient", uid, r.rows, r.err, {}, row.user_id)
  /\ UNCHANGED <<authUsers, goneUsers, profiles, tasks, nextTask, now, ui>>

ApiInsertTask(uid, row) ==
  /\ uid \in authUsers
  /\ nextTask <= MaxTasks
  /\ LET r == InsertTask(uid, row)
     IN  /\ tasks' = r.tasks
         /\ nextTask' = IF r.err THEN nextTask ELSE nextTask + 1
         /\ insertedBy' = IF r.err THEN insertedBy
                          ELSE [insertedBy EXCEPT !.tasks = @ @@ (nextTask :> uid)]
         /\ Did("insertTask", uid, r.rows, r.err, {}, row.user_id)
  /\ UNCHANGED <<authUsers, goneUsers, profiles, clients, nextClient, now, ui>>

ApiUpdateClient(uid, id, p) ==
  /\ uid \in authUsers
  /\ LET r == UpdateClient(uid, id, p)
     IN  /\ clients' = r.clients
         /\ Did("updateClient", uid, r.rows, r.err, {}, PayloadOwner(p))
  /\ UNCHANGED <<authUsers, goneUsers, profiles, tasks, nextClient, nextTask,
                 insertedBy, now, ui>>

ApiUpdateTask(uid, id, p) ==
  /\ uid \in authUsers
  /\ LET r == UpdateTask(uid, id, p)
     IN  /\ tasks' = r.tasks
         /\ Did("updateTask", uid, r.rows, r.err, {}, PayloadOwner(p))
  /\ UNCHANGED <<authUsers, goneUsers, profiles, clients, nextClient, nextTask,
                 insertedBy, now, ui>>

ApiDeleteClient(uid, id) ==
  /\ uid \in authUsers
  /\ LET r == DeleteClient(uid, id)
     IN  /\ clients' = r.clients
         /\ tasks' = r.tasks
         /\ Did("deleteClient", uid, r.rows, r.err, Refs(r.rows), NoUser)
  /\ UNCHANGED <<authUsers, goneUsers, profiles, nextClient, nextTask,
                 insertedBy, now, ui>>

ApiDeleteTask(uid, id) ==
  /\ uid \in authUsers
  /\ LET r == DeleteTask(uid, id)
     IN  /\ tasks' = r.tasks
         /\ Did("deleteTask", uid, r.rows, r.err, {}, NoUser)
  /\ UNCHANGED <<authUsers, goneUsers, profiles, clients, nextClient, nextTask,
                 insertedBy, now, ui>>

\* direct calls on profiles
ProfileRows ==
  [id : Users, name : {"Ana L."}, email : {EmailOf["u1"]}, account_type : {"escritorio"},
   created_at : {ClockStart}, last_login : {ClockStart}]
ProfilePatches ==
  [{"name"} -> {"Ana L."}] \cup [{"id"} -> Users] \cup [{"account_type"} -> {"escritorio"}]

ApiSelectProfiles(uid) ==
  /\ uid \in authUsers
  /\ Did("selectProfiles", uid, {r.id : r \in SelectProfiles(uid)}, FALSE, {}, NoUser)
  /\ UNCHANGED <<dbVars, now, ui>>

ApiInsertProfile(uid, row) ==
  /\ uid \in authUsers
  /\ LET r == InsertProfile(uid, row)
     IN  /\ profiles' = r.profiles
         /\ Did("insertProfile", uid, r.rows, r.err, {}, row.id)
  /\ UNCHANGED <<authUsers, goneUsers, clients, tasks, nextClient, nextTask,
                 insertedBy, now, ui>>

ApiUpdateProfile(uid, id, p) ==
  /\ uid \in authUsers
  /\ LET r == UpdateProfile(uid, id, p)
     IN  /\ profiles' = r.profiles
         /\ Did("updateProfile", uid, r.rows, r.err, {}, NoUser)
  /\ UNCHANGED <<authUsers, goneUsers, clients, tasks, nextClient, nextTask,
                 insertedBy, now, ui>>

ApiDeleteProfile(uid, id) ==
  /\ uid \in authUsers
  /\ LET r == DeleteProfile(uid, id)
     IN  /\ profiles' = r.profiles
         /\ Did("deleteProfile", uid, r.rows, r.err, {}, id)
  /\ UNCHANGED <<authUsers, goneUsers, clients, tasks, nextClient, nextTask,
                 insertedBy, now, ui>>

Next ==
  \/ \E u \in Users : SignUp(u)
  \/ \E u \in Users : DeleteIdentity(u)
  \/ \E u \in Users : ApiSelectClients(u)
  \/ \E u \in Users : ApiSelectTasks(u)
  \/ \E u \in Users, row \in ClientRows : ApiInsertClient(u, row)
  \/ \E u \in Users, row \in TaskRows : ApiInsertTask(u, row)
  \/ \E u \in Users, id \in ClientIds, p \in ClientPatches : ApiUpdateClient(u, id, p)
  \/ \E u \in Users, id \in TaskIds, p \in TaskPatches : ApiUpdateTask(u, id, p)
  \/ \E u \in Users, id \in ClientIds : ApiDeleteClient(u, id)
  \/ \E u \in Users, id \in TaskIds : ApiDeleteTask(u, id)

Spec == Init /\ [][Next]_vars

----------------------------------------------------------------------------
(* Sessions.  A handler is one step, from its event (or from the response  *)
(* it awaits) to the end of its finally block.                             *)

\* how a call to the backend ends: it is processed ("ok"), the backend
\* answers with an error result and changes nothing, or the call throws
Outcomes == {"ok", "error", "throw"}

\* the result of a statement that was not processed
Failed == [err |-> TRUE, clients |-> clients, tasks |-> tasks, rows |-> {}]

Idle(s) == ui[s].user # NoUser /\ ~ui[s].effectPending

\* the clock
Tick ==
  /\ now < ClockStart + MaxTicks * ClockStep
  /\ now' = now + ClockStep
  /\ UNCHANGED <<dbVars, ui, last>>

\* Dashboard mounts and calls fetchDashboardData, which takes today first
OpenDashboard(user) ==
  [Screen(user, "dashboard") EXCEPT !.fetchPending = 1, !.loading = TRUE,
                                    !.dash.today = UtcDay(now)]

\* the count queries of fetchDashboardData, in the order they are awaited
StatKeys == <<"totalClients", "pendingTasks", "todayTasks", "overdueTasks">>

\* select('*', { count: 'exact', head: true }) with the filters of the
\* k-th query, as the backend counts at the moment it runs it
DashCount(uid, k, today) ==
  LET pending == {t \in SelectTasks(uid) : tasks[t].status = "pendente"}
  IN  CASE k = 1 -> Cardinality(SelectClients(uid))
        [] k = 2 -> Cardinality(pending)
        [] k = 3 -> Cardinality({t \in pending : tasks[t].due_date = today})
        [] k = 4 -> Cardinality({t \in pending : tasks[t].due_date < today})

\* Login.onSubmit: signIn succeeds and the tab goes to /dashboard.  The
\* sign-in writes no row of profiles: no trigger calls update_last_login.
Login(s, u) ==
  /\ ui[s].user = NoUser
  /\ ui[s].screen = "login"
  /\ u \in authUsers
  /\ ui' = [ui EXCEPT ![s] = OpenDashboard(u)]
  /\ Told(s, "login", u, {}, FALSE, {}, NoUser, "Bem-vindo!")
  /\ UNCHANGED <<dbVars, now>>

\* Login.onSubmit when signIn gives an error result or throws
LoginFailed(s, u, outcome) ==
  /\ ui[s].user = NoUser
  /\ ui[s].screen = "login"
  /\ outcome # "ok" \/ u \notin authUsers
  /\ ui' = [ui EXCEPT ![s].loading = FALSE]
  /\ Told(s, "login", u, {}, TRUE, {}, NoUser,
          IF outcome = "throw" THEN "Erro" ELSE "Erro ao entrar")
  /\ UNCHANGED <<dbVars, now>>

\* Dashboard.fetchDashboardData, from the last response on
FetchDashboardDone(s, outcome) ==
  /\ Idle(s)
  /\ ui[s].screen = "dashboard"
  /\ ui[s].fetchPending > 0
  /\ ui[s].dash.step = 0
  /\ ui' = [ui EXCEPT ![s].fetchPending = @ - 1, ![s].loading = FALSE,
                      ![s].dash.step = 5,
                      ![s].stats = IF outcome # "ok" THEN NoStats
                                   ELSE [key \in DOMAIN NoStats |->
                                           LET k == CHOOSE i \in 1..4 : StatKeys[i] = key
                                           IN  DashCount(ui[s].user, k, ui[s].dash.today)]]
  /\ DidIn(s, "fetchDashboard", ui[s].user, {}, outcome # "ok", {}, NoUser)
  /\ UNCHANGED <<dbVars, now>>

\* fetchDashboardData query by query: the next count is answered
DashboardQuery(s) ==
  /\ Idle(s)
  /\ ui[s].screen = "dashboard"
  /\ ui[s].fetchPending > 0
  /\ ui[s].dash.step < 4
  /\ LET k == ui[s].dash.step + 1
     IN  ui' = [ui EXCEPT ![s].dash.step = k,
                          ![s].dash.counts[StatKeys[k]] =
                             DashCount(ui[s].user, k, ui[s].dash.today)]
  /\ DidIn(s, "dashboardQuery", ui[s].user, {}, FALSE, {}, NoUser)
  /\ UNCHANGED <<dbVars, now>>

\* the recent tasks are answered: setStats, setRecentTasks, setLoading(false)
DashboardLoaded(s) ==
  /\ Idle(s)
  /\ ui[s].screen = "dashboard"
  /\ ui[s].fetchPending > 0
  /\ ui[s].dash.step = 4
  /\ ui' = [ui EXCEPT ![s].fetchPending = @ - 1, ![s].loading = FALSE,
                      ![s].dash.step = 5, ![s].stats = ui[s].dash.counts]
  /\ DidIn(s, "fetchDashboard", ui[s].user, {}, FALSE, {}, NoUser)
  /\ UNCHANGED <<dbVars, now>>

\* Sidebar link to /dashboard
GoDashboard(s) ==
  /\ Idle(s)
  /\ ui[s].screen # "dashboard"
  /\ ui' = [ui EXCEPT ![s] = OpenDashboard(ui[s].user)]
  /\ DidIn(s, "goDashboard", ui[s].user, {}, FALSE, {}, NoUser)
  /\ UNCHANGED <<dbVars, now>>

\* Sidebar link to /tasks, or a navigate('/tasks'): Tasks mounts and calls
\* fetchTasks
OpenTasks(user) == [Screen(user, "tasks") EXCEPT !.fetchPending = 1, !.loading = TRUE]
OpenClients(user) == [Screen(user, "clients") EXCEPT !.fetchPending = 1, !.loading = TRUE]

GoTasks(s) ==
  /\ Idle(s)
  /\ ui[s].screen # "tasks"
  /\ ui' = [ui EXCEPT ![s] = OpenTasks(ui[s].user)]
  /\ DidIn(s, "goTasks", ui[s].user, {}, FALSE, {}, NoUser)
  /\ UNCHANGED <<dbVars, now>>

GoClients(s) ==
  /\ Idle(s)
  /\ ui[s].screen # "clients"
  /\ ui' = [ui EXCEPT ![s] = OpenClients(ui[s].user)]
  /\ DidIn(s, "goClients", ui[s].user, {}, FALSE, {}, NoUser)
  /\ UNCHANGED <<dbVars, now>>

\* Tasks.fetchTasks, from the response on
FetchTasksDone(s, outcome) ==
  /\ Idle(s)
  /\ ui[s].screen = "tasks"
  /\ ui[s].fetchPending > 0
  /\ IF outcome = "ok"
     THEN /\ LET data == FetchedTasks(ui[s].user)
             IN  ui' = [ui EXCEPT ![s].tasks = data, ![s].filteredTasks = data,
                                  ![s].fetchPending = @ - 1, ![s].effectPending = TRUE,
                                  ![s].loading = FALSE]
          /\ DidIn(s, "fetchTasks", ui[s].user, SelectTasks(ui[s].user), FALSE, {}, NoUser)
     ELSE /\ ui' = [ui EXCEPT ![s].fetchPending = @ - 1, ![s].loading = FALSE]
          /\ Told(s, "fetchTasks", ui[s].user, {}, TRUE, {}, NoUser, "Erro")
  /\ UNCHANGED <<dbVars, now>>

\* a sequence without its k-th element
RemoveAt(q, k) == [i \in 1..(Len(q) - 1) |-> IF i < k THEN q[i] ELSE q[i + 1]]

\* Tasks.fetchTasks in two steps.  The backend runs the select: the answer
\* holds the rows of that moment and travels back.
FetchTasksServed(s) ==
  /\ ui[s].user # NoUser
  /\ ui[s].screen = "tasks"
  /\ ui[s].fetchPending > 0
  /\ Len(ui[s].responses) < MaxResponses
  /\ ui' = [ui EXCEPT ![s].fetchPending = @ - 1,
                      ![s].responses = Append(@, FetchedTasks(ui[s].user))]
  /\ DidIn(s, "selectTasks", ui[s].user, SelectTasks(ui[s].user), FALSE, {}, NoUser)
  /\ UNCHANGED <<dbVars, now>>

\* An answer arrives, in any order: setTasks(data), setFilteredTasks(data),
\* setLoading(false).  No answer is told from a newer one.
FetchTasksDelivered(s, k) ==
  /\ Idle(s)
  /\ ui[s].screen = "tasks"
  /\ k \in DOMAIN ui[s].responses
  /\ LET data == ui[s].responses[k]
     IN  /\ ui' = [ui EXCEPT ![s].tasks = data, ![s].filteredTasks = data,
                              ![s].responses = RemoveAt(@, k),
                              ![s].effectPending = TRUE, ![s].loading = FALSE]
         /\ DidIn(s, "fetchTasks", ui[s].user, {data[i].id : i \in DOMAIN data},
                  FALSE, {}, NoUser)
  /\ UNCHANGED <<dbVars, now>>

\* the Select of the Tasks screen: setStatusFilter
SetStatusFilter(s, f) ==
  /\ Idle(s)
  /\ ui[s].screen = "tasks"
  /\ f # ui[s].statusFilter
  /\ ui' = [ui EXCEPT ![s].statusFilter = f, ![s].effectPending = TRUE]
  /\ DidIn(s, "setStatusFilter", ui[s].user, {}, FALSE, {}, NoUser)
  /\ UNCHANGED <<dbVars, now>>

\* useEffect(..., [statusFilter, tasks]) of the Tasks screen
FilterEffect(s) ==
  /\ ui[s].effectPending
  /\ ui' = [ui EXCEPT ![s].filteredTasks = FilterTasks(ui[s].tasks, ui[s].statusFilter),
                      ![s].filterToday = TodayText,
                      ![s].effectPending = FALSE]
  /\ DidIn(s, "filterEffect", ui[s].user, {}, FALSE, {}, NoUser)
  /\ UNCHANGED <<dbVars, now>>

\* Tasks.toggleTaskComplete(task), task being the i-th row shown
\* the toggle as if it could only complete a task
NewStatus_Done(status) == "concluida"
\* the toggle as if reopening a task marked it late
NewStatus_Late(status) == IF status = "concluida" THEN "atrasada" ELSE "concluida"
NewStatus(status) == IF status = "concluida" THEN "pendente" ELSE "concluida"

\* the screen after the toggle as if it patched the row it holds
AfterToggle_Patched(scr, id, newStatus, err) ==
  IF err THEN scr
  ELSE LET patch(list) == [k \in DOMAIN list |->
                             IF list[k].id = id THEN [list[k] EXCEPT !.status = newStatus]
                             ELSE list[k]]
       IN  [scr EXCEPT !.tasks = patch(@), !.filteredTasks = patch(@)]

\* the screen after the toggle: fetchTasks() is called when the update
\* went through
AfterToggle(scr, id, newStatus, err) ==
  IF err THEN scr ELSE [scr EXCEPT !.fetchPending = @ + 1]

ToggleTaskComplete(s, i, outcome) ==
  /\ Idle(s)
  /\ ui[s].screen = "tasks"
  /\ i \in DOMAIN ui[s].filteredTasks
  /\ ui[s].fetchPending < MaxInflight
  /\ LET task == ui[s].filteredTasks[i]
         newStatus == NewStatus(task.status)
         r == IF outcome = "ok"
              THEN UpdateTask(ui[s].user, task.id, [status |-> newStatus])
              ELSE Failed
     IN  /\ tasks' = r.tasks
         /\ ui' = [ui EXCEPT ![s] = AfterToggle(@, task.id, newStatus, r.err)]
         /\ Told(s, "toggleTaskComplete", ui[s].user, r.rows, r.err, {}, NoUser,
                 IF r.err THEN "Erro"
                 ELSE IF newStatus = "concluida" THEN "Tarefa concluida!"
                 ELSE "Tarefa reaberta")
  /\ UNCHANGED <<authUsers, goneUsers, profiles, clients, nextClient, nextTask,
                 insertedBy, now>>

\* TaskFormPage mounts (Link to /tasks/new, or to /tasks/:id/edit from the
\* i-th row shown): fetchClients, and fetchTask when editing
\* TaskFormPage.fetchClients: a failure is logged, with no notification,
\* and leaves the list empty
FormClients(uid, outcome) == IF outcome = "ok" THEN SelectClients(uid) ELSE {}

GoTaskFormNew(s, outcome) ==
  /\ Idle(s)
  /\ ui[s].screen = "tasks"
  /\ ui' = [ui EXCEPT ![s] = [Screen(ui[s].user, "taskform") EXCEPT
                                !.formClients = FormClients(ui[s].user, outcome)]]
  /\ DidIn(s, "goTaskForm", ui[s].user, {}, outcome # "ok", {}, NoUser)
  /\ UNCHANGED <<dbVars, now>>

\* the edit form mounts with fetching = isEditing and calls fetchTask
GoTaskFormEdit(s, i, outcome) ==
  /\ Idle(s)
  /\ ui[s].screen = "tasks"
  /\ i \in DOMAIN ui[s].filteredTasks
  /\ ui' = [ui EXCEPT ![s] = [Screen(ui[s].user, "taskform") EXCEPT
                                !.formId = ui[s].filteredTasks[i].id,
                                !.formClients = FormClients(ui[s].user, outcome),
                                !.fetching = TRUE, !.fetchPending = 1]]
  /\ DidIn(s, "goTaskForm", ui[s].user, {}, outcome # "ok", {}, NoUser)
  /\ UNCHANGED <<dbVars, now>>

\* TaskFormPage.fetchTask, from the response on: the form takes the task's
\* client_id; a failure shows the notification and goes back to /tasks
FetchTaskDone(s, outcome) ==
  /\ Idle(s)
  /\ ui[s].screen = "taskform"
  /\ ui[s].fetching
  /\ IF outcome = "ok"
     THEN LET got == {t \in SelectTasks(ui[s].user) : t = ui[s].formId}
              own == {tasks[t].client_id : t \in got} \ {NULL}
          IN  /\ ui' = [ui EXCEPT ![s].formClients = @ \cup own,
                                   ![s].fetching = FALSE, ![s].fetchPending = 0]
              /\ DidIn(s, "fetchTask", ui[s].user, got, FALSE, {}, NoUser)
     ELSE /\ ui' = [ui EXCEPT ![s] = OpenTasks(ui[s].user)]
          /\ Told(s, "fetchTask", ui[s].user, {}, TRUE, {}, NoUser, "Erro")
  /\ UNCHANGED <<dbVars, now>>

\* what the task form can submit: taskSchema, the client from the Select
TaskFormData(s) ==
  [title : Titles, due_date : {IsoDateText(d) : d \in DueDates},
   client_id : ui[s].formClients \cup {NULL}]

\* the payload as if the form reset the status of the task
TaskData_Reopened(data, user) ==
  [title |-> data.title, due_date |-> DateIn(data.due_date),
   client_id |-> data.client_id, user_id |-> user, status |-> DefaultTaskStatus]

\* taskData of onSubmit: the columns the form sends
TaskData(data, user) ==
  [title |-> data.title, due_date |-> DateIn(data.due_date),
   client_id |-> data.client_id, user_id |-> user]

\* TaskFormPage.onSubmit
SubmitTaskForm(s, data, outcome) ==
  /\ Idle(s)
  /\ ui[s].screen = "taskform"
  /\ ~ui[s].fetching
  /\ LET user == ui[s].user
         taskData == TaskData(data, user)
     IN  IF ui[s].formId # NULL
         THEN LET r == IF outcome = "ok" THEN UpdateTask(user, ui[s].formId, taskData)
                       ELSE Failed
              IN  /\ tasks' = r.tasks
                  /\ ui' = [ui EXCEPT ![s] = IF r.err THEN [@ EXCEPT !.loading = FALSE]
                                             ELSE OpenTasks(user)]
                  /\ Told(s, "updateTaskForm", user, r.rows, r.err, {}, user,
                          IF r.err THEN "Erro" ELSE "Tarefa atualizada")
                  /\ UNCHANGED <<nextTask, insertedBy>>
         ELSE LET row == [user_id |-> user, client_id |-> taskData.client_id,
                          title |-> taskData.title, due_date |-> taskData.due_date,
                          status |-> DefaultTaskStatus]
                  r == IF outcome = "ok" THEN InsertTask(user, row) ELSE Failed
              IN  /\ nextTask <= MaxTasks
                  /\ tasks' = r.tasks
                  /\ nextTask' = IF r.err THEN nextTask ELSE nextTask + 1
                  /\ insertedBy' = IF r.err THEN insertedBy
                                   ELSE [insertedBy EXCEPT !.tasks = @ @@ (nextTask :> user)]
                  /\ ui' = [ui EXCEPT ![s] = IF r.err THEN [@ EXCEPT !.loading = FALSE]
                                             ELSE OpenTasks(user)]
                  /\ Told(s, "insertTaskForm", user, r.rows, r.err, {}, user,
                          IF r.err THEN "Erro" ELSE "Tarefa criada")
  /\ UNCHANGED <<authUsers, goneUsers, profiles, clients, nextClient, now>>

\* Clients.fetchClients, from the response on
FetchClientsDone(s, outcome) ==
  /\ Idle(s)
  /\ ui[s].screen = "clients"
  /\ ui[s].fetchPending > 0
  /\ IF outcome = "ok"
     THEN /\ ui' = [ui EXCEPT ![s].clients = FetchedClients(ui[s].user),
                              ![s].fetchPending = @ - 1, ![s].loading = FALSE]
          /\ DidIn(s, "fetchClients", ui[s].user, SelectClients(ui[s].user), FALSE, {}, NoUser)
     ELSE /\ ui' = [ui EXCEPT ![s].fetchPending = @ - 1, ![s].loading = FALSE]
          /\ Told(s, "fetchClients", ui[s].user, {}, TRUE, {}, NoUser, "Erro")
  /\ UNCHANGED <<dbVars, now>>

\* "Excluir" on the i-th client shown: setDeleteId(client.id)
SetDeleteId(s, i) ==
  /\ Idle(s)
  /\ ui[s].screen = "clients"
  /\ ui[s].deleteId = NULL
  /\ i \in DOMAIN ui[s].clients
  /\ ui' = [ui EXCEPT ![s].deleteId = ui[s].clients[i].id]
  /\ DidIn(s, "setDeleteId", ui[s].user, {}, FALSE, {}, NoUser)
  /\ UNCHANGED <<dbVars, now>>

\* "Cancelar" in the dialog: onOpenChange
CancelDelete(s) ==
  /\ Idle(s)
  /\ ui[s].screen = "clients"
  /\ ui[s].deleteId # NULL
  /\ ui' = [ui EXCEPT ![s].deleteId = NULL]
  /\ DidIn(s, "cancelDelete", ui[s].user, {}, FALSE, {}, NoUser)
  /\ UNCHANGED <<dbVars, now>>

\* the end of handleDelete as if the dialog were closed on success only
AfterDelete_KeptOpen(scr, err) ==
  IF err THEN scr ELSE [scr EXCEPT !.fetchPending = @ + 1, !.deleteId = NULL]

\* the end of handleDelete: fetchClients() when the delete went through,
\* and finally setDeleteId(null)
AfterDelete(scr, err) ==
  [scr EXCEPT !.fetchPending = IF err THEN @ ELSE @ + 1, !.deleteId = NULL]

\* Clients.handleDelete: "Excluir" in the dialog
HandleDelete(s, outcome) ==
  /\ Idle(s)
  /\ ui[s].screen = "clients"
  /\ ui[s].deleteId # NULL
  /\ ui[s].fetchPending < MaxInflight
  /\ LET r == IF outcome = "ok" THEN DeleteClient(ui[s].user, ui[s].deleteId)
              ELSE Failed
     IN  /\ clients' = r.clients
         /\ tasks' = r.tasks
         /\ ui' = [ui EXCEPT ![s] = AfterDelete(@, r.err)]
         /\ Told(s, "handleDelete", ui[s].user, r.rows, r.err, Refs(r.rows), NoUser,
                 IF r.err THEN "Erro" ELSE "Cliente excluido")
  /\ UNCHANGED <<authUsers, goneUsers, profiles, nextClient, nextTask, insertedBy, now>>

\* ClientFormPage mounts (Link to /clients/new, or to /clients/:id/edit)
GoClientFormNew(s) ==
  /\ Idle(s)
  /\ ui[s].screen = "clients"
  /\ ui[s].deleteId = NULL
  /\ ui' = [ui EXCEPT ![s] = Screen(ui[s].user, "clientform")]
  /\ DidIn(s, "goClientForm", ui[s].user, {}, FALSE, {}, NoUser)
  /\ UNCHANGED <<dbVars, now>>

\* the edit form mounts with fetching = isEditing and calls fetchClient
GoClientFormEdit(s, i) ==
  /\ Idle(s)
  /\ ui[s].screen = "clients"
  /\ ui[s].deleteId = NULL
  /\ i \in DOMAIN ui[s].clients
  /\ ui' = [ui EXCEPT ![s] = [Screen(ui[s].user, "clientform") EXCEPT
                                !.formId = ui[s].clients[i].id,
                                !.fetching = TRUE, !.fetchPending = 1]]
  /\ DidIn(s, "goClientForm", ui[s].user, {}, FALSE, {}, NoUser)
  /\ UNCHANGED <<dbVars, now>>

\* ClientFormPage.fetchClient, from the response on
FetchClientDone(s, outcome) ==
  /\ Idle(s)
  /\ ui[s].screen = "clientform"
  /\ ui[s].fetching
  /\ IF outcome = "ok"
     THEN /\ ui' = [ui EXCEPT ![s].fetching = FALSE, ![s].fetchPending = 0]
          /\ DidIn(s, "fetchClient", ui[s].user,
                   {c \in SelectClients(ui[s].user) : c = ui[s].formId}, FALSE, {}, NoUser)
     ELSE /\ ui' = [ui EXCEPT ![s] = OpenClients(ui[s].user)]
          /\ Told(s, "fetchClient", ui[s].user, {}, TRUE, {}, NoUser, "Erro")
  /\ UNCHANGED <<dbVars, now>>

ClientFormData == [name : ClientNames]

\* ClientFormPage.onSubmit
SubmitClientForm(s, data, outcome) ==
  /\ Idle(s)
  /\ ui[s].screen = "clientform"
  /\ ~ui[s].fetching
  /\ LET user == ui[s].user
         clientData == [name |-> data.name, user_id |-> user]
     IN  IF ui[s].formId # NULL
         THEN LET r == IF outcome = "ok" THEN UpdateClient(user, ui[s].formId, clientData)
                       ELSE Failed
              IN  /\ clients' = r.clients
                  /\ ui' = [ui EXCEPT ![s] = IF r.err THEN [@ EXCEPT !.loading = FALSE]
                                             ELSE OpenClients(user)]
                  /\ Told(s, "updateClientForm", user, r.rows, r.err, {}, user,
                          IF r.err THEN "Erro" ELSE "Cliente atualizado")
                  /\ UNCHANGED <<nextClient, insertedBy>>
         ELSE LET r == IF outcome = "ok" THEN InsertClient(user, clientData)
                       ELSE Failed
              IN  /\ nextClient <= MaxClients
                  /\ clients' = r.clients
                  /\ nextClient' = IF r.err THEN nextClient ELSE nextClient + 1
                  /\ insertedBy' = IF r.err THEN insertedBy
                                   ELSE [insertedBy EXCEPT !.clients = @ @@ (nextClient :> user)]
                  /\ ui' = [ui EXCEPT ![s] = IF r.err THEN [@ EXCEPT !.loading = FALSE]
                                             ELSE OpenClients(user)]
                  /\ Told(s, "insertClientForm", user, r.rows, r.err, {}, user,
                          IF r.err THEN "Erro" ELSE "Cliente cadastrado")
  /\ UNCHANGED <<authUsers, goneUsers, profiles, tasks, nextTask, now>>

\* The user leaves a form by the Sidebar link to /dashboard while the form's
\* fetch or its save is on its way.  Nothing cancels the call: its handler
\* goes on when the answer comes.
LeaveForm(s) ==
  /\ Idle(s)
  /\ ui[s].screen \in {"clientform", "taskform"}
  /\ ui[s].fetching \/ (ui[s].loading /\ ui[s].screen = "clientform")
  /\ ui' = [ui EXCEPT ![s] =
              [OpenDashboard(ui[s].user) EXCEPT !.orphan =
                 [op |-> IF ~ui[s].fetching THEN "lateSubmitClient"
                         ELSE IF ui[s].screen = "clientform" THEN "lateFetchClient"
                         ELSE "lateFetchTask",
                  id |-> ui[s].formId]]]
  /\ DidIn(s, "leaveForm", ui[s].user, {}, FALSE, {}, NoUser)
  /\ UNCHANGED <<dbVars, now>>

\* The rest of fetchClient, fetchTask or ClientFormPage.onSubmit after the
\* form was left: reset(), setFetching and setLoading act on a component
\* that is gone, while toast() and navigate() act on the application.
LateDone(s, data, outcome) ==
  LET call == ui[s].orphan
      user == ui[s].user
      here == [ui[s] EXCEPT !.orphan = NoCall]
  IN
  /\ Idle(s)
  /\ call.op # "none"
  /\ IF call.op \in {"lateFetchClient", "lateFetchTask"}
     THEN /\ ui' = [ui EXCEPT ![s] = IF outcome = "ok" THEN here
                                      ELSE IF call.op = "lateFetchClient"
                                           THEN OpenClients(user)
                                           ELSE OpenTasks(user)]
          /\ Told(s, call.op, user, {}, outcome # "ok", {}, NoUser,
                  IF outcome = "ok" THEN NoToast ELSE "Erro")
          /\ UNCHANGED <<clients, nextClient, insertedBy>>
     ELSE LET clientData == [name |-> data.name, user_id |-> user]
              r == IF outcome # "ok" THEN Failed
                   ELSE IF call.id # NULL THEN UpdateClient(user, call.id, clientData)
                   ELSE InsertClient(user, clientData)
              new == call.id = NULL /\ ~r.err
          IN  /\ call.id = NULL => nextClient <= MaxClients
              /\ clients' = r.clients
              /\ nextClient' = IF new THEN nextClient + 1 ELSE nextClient
              /\ insertedBy' = IF new
                               THEN [insertedBy EXCEPT !.clients = @ @@ (nextClient :> user)]
                               ELSE insertedBy
              /\ ui' = [ui EXCEPT ![s] = IF r.err THEN here ELSE OpenClients(user)]
              /\ Told(s, call.op, user, r.rows, r.err, {}, user,
                      IF r.err THEN "Erro"
                      ELSE IF call.id # NULL THEN "Cliente atualizado"
                      ELSE "Cliente cadastrado")
  /\ UNCHANGED <<authUsers, goneUsers, profiles, tasks, nextTask, now>>

----------------------------------------------------------------------------
(* Accounts: the Register, Login and Profile screens *)

\* Link to /register on the Login screen, Link to /login on Register and
\* on ForgotPassword
GoRegister(s) ==
  /\ ui[s].user = NoUser
  /\ ui[s].screen = "login"
  /\ ui' = [ui EXCEPT ![s] = Screen(NoUser, "register")]
  /\ DidIn(s, "goRegister", NoUser, {}, FALSE, {}, NoUser)
  /\ UNCHANGED <<dbVars, now>>

GoLogin(s) ==
  /\ ui[s].user = NoUser
  /\ ui[s].screen \in {"register", "forgot"}
  /\ ui' = [ui EXCEPT ![s] = Screen(NoUser, "login")]
  /\ DidIn(s, "goLogin", NoUser, {}, FALSE, {}, NoUser)
  /\ UNCHANGED <<dbVars, now>>

\* registerSchema: the name and one of the two categories
RegisterData == [name : {"Ana Lima"}, accountType : AccountType]

\* Register.onSubmit, for the e-mail of u.  outcome "error": the database
\* refuses the profile INSERT of the trigger.  arg tells what failed.
RegisterSubmit(s, u, data, outcome) ==
  /\ ui[s].user = NoUser
  /\ ui[s].screen = "register"
  /\ u \notin goneUsers
  /\ IF outcome = "throw"
     THEN /\ ui' = [ui EXCEPT ![s].loading = FALSE]
          /\ Told(s, "register", u, {}, TRUE, {}, "thrown", "Erro")
          /\ UNCHANGED <<authUsers, profiles>>
     ELSE IF u \in authUsers
     THEN /\ ui' = [ui EXCEPT ![s].loading = FALSE]
          /\ Told(s, "register", u, {}, TRUE, {}, "registered", "Erro ao criar conta")
          /\ UNCHANGED <<authUsers, profiles>>
     ELSE LET r == InsertAuthUser(u, SignUpMeta(data.name, data.accountType),
                                  outcome = "error")
          IN  /\ authUsers' = r.authUsers
              /\ profiles' = r.profiles
              /\ ui' = [ui EXCEPT ![s] = IF r.err THEN [@ EXCEPT !.loading = FALSE]
                                         ELSE Screen(NoUser, "login")]
              /\ last' = [LastOf(s, "register", u, IF r.err THEN {} ELSE {u}, r.err, {},
                                  IF r.err THEN "profile" ELSE NoUser,
                                  IF r.err THEN "Erro ao criar conta"
                                  ELSE "Conta criada com sucesso!")
                             EXCEPT !.meta = SignUpMeta(data.name, data.accountType)]
  /\ UNCHANGED <<goneUsers, clients, tasks, nextClient, nextTask, insertedBy, now>>

\* the Profile screen; the profile of the signed-in user is read from the
\* authentication context
GoProfile(s) ==
  /\ Idle(s)
  /\ ui[s].screen # "profile"
  /\ ui' = [ui EXCEPT ![s] = Screen(ui[s].user, "profile")]
  /\ DidIn(s, "goProfile", ui[s].user, {}, FALSE, {}, NoUser)
  /\ UNCHANGED <<dbVars, now>>

\* profileSchema
ProfileData == [name : PersonNames]

\* update({ name: data.name })
ProfilePayload(data) == [name |-> data.name]

\* Profile.onProfileSubmit
SubmitProfile(s, data, outcome) ==
  /\ Idle(s)
  /\ ui[s].screen = "profile"
  /\ ui[s].user \in ProfileIds(profiles)
  /\ LET user == ui[s].user
         r == IF outcome = "ok" THEN UpdateProfile(user, user, ProfilePayload(data))
              ELSE [err |-> TRUE, profiles |-> profiles, rows |-> {}]
     IN  /\ profiles' = r.profiles
         /\ ui' = [ui EXCEPT ![s].loading = FALSE]
         /\ Told(s, "submitProfile", user, r.rows, r.err, {}, NoUser,
                 IF r.err THEN "Erro" ELSE "Perfil atualizado")
  /\ UNCHANGED <<authUsers, goneUsers, clients, tasks, nextClient, nextTask,
                 insertedBy, now>>

\* Profile.onPasswordSubmit, from the answer of updatePassword on
SubmitPassword(s, outcome) ==
  /\ Idle(s)
  /\ ui[s].screen = "profile"
  /\ ui' = [ui EXCEPT ![s].loadingPassword = FALSE]
  /\ Told(s, "submitPassword", ui[s].user, {}, outcome # "ok", {}, NoUser,
          IF outcome = "ok" THEN "Senha alterada" ELSE "Erro")
  /\ UNCHANGED <<dbVars, now>>

\* Link to /forgot-password on the Login screen
GoForgot(s) ==
  /\ ui[s].user = NoUser
  /\ ui[s].screen = "login"
  /\ ui' = [ui EXCEPT ![s] = Screen(NoUser, "forgot")]
  /\ DidIn(s, "goForgot", NoUser, {}, FALSE, {}, NoUser)
  /\ UNCHANGED <<dbVars, now>>

\* ForgotPassword.onSubmit, from the answer of resetPassword on
SubmitForgot(s, outcome) ==
  /\ ui[s].user = NoUser
  /\ ui[s].screen = "forgot"
  /\ ui' = [ui EXCEPT ![s].loading = FALSE,
                      ![s].emailSent = IF outcome = "ok" THEN TRUE ELSE @]
  /\ Told(s, "submitForgot", NoUser, {}, outcome # "ok", {}, NoUser,
          IF outcome = "ok" THEN "E-mail enviado!" ELSE "Erro")
  /\ UNCHANGED <<dbVars, now>>

\* the screens whose submit handler starts with setLoading(true)
SubmitScreens == {"register", "login", "forgot", "profile", "taskform", "clientform"}

\* onSubmit up to its await: setLoading(true) and the call is sent.  The
\* submit button is disabled while loading.
BeginSubmit(s) ==
  /\ ui[s].screen \in SubmitScreens
  /\ ~ui[s].loading /\ ~ui[s].fetching
  /\ ui' = [ui EXCEPT ![s].loading = TRUE]
  /\ DidIn(s, "beginSubmit", ui[s].user, {}, FALSE, {}, NoUser)
  /\ UNCHANGED <<dbVars, now>>

\* Profile.onPasswordSubmit up to its await: setLoadingPassword(true)
BeginPassword(s) ==
  /\ Idle(s)
  /\ ui[s].screen = "profile"
  /\ ~ui[s].loadingPassword
  /\ ui' = [ui EXCEPT ![s].loadingPassword = TRUE]
  /\ DidIn(s, "beginPassword", ui[s].user, {}, FALSE, {}, NoUser)
  /\ UNCHANGED <<dbVars, now>>

\* accounts: sign-up, sign-in, the profile, direct calls on profiles
NextAuth ==
  \/ Tick
  \/ \E u \in Users, meta \in Metas, fault \in BOOLEAN : AuthSignUp(u, meta, fault)
  \/ \E u \in Users : DeleteIdentity(u)
  \/ \E u \in Users : ApiSelectProfiles(u)
  \/ \E u \in Users, row \in ProfileRows : ApiInsertProfile(u, row)
  \/ \E u \in Users, id \in Users, p \in ProfilePatches : ApiUpdateProfile(u, id, p)
  \/ \E u \in Users, id \in Users : ApiDeleteProfile(u, id)
  \/ \E s \in Sessions : GoRegister(s)
  \/ \E s \in Sessions : GoLogin(s)
  \/ \E s \in Sessions, u \in Users, data \in RegisterData, o \in Outcomes :
       RegisterSubmit(s, u, data, o)
  \/ \E s \in Sessions, u \in Users : Login(s, u)
  \/ \E s \in Sessions : GoProfile(s)
  \/ \E s \in Sessions, data \in ProfileData, o \in Outcomes : SubmitProfile(s, data, o)

SpecAuth == Init /\ [][NextAuth]_vars

\* the forms and the client deletion, in two tabs at once; every task is
\* given the same due date
NextTabs ==
  \/ \E u \in Users : SignUp(u)
  \/ \E s \in Tabs, u \in Users : Login(s, u)
  \/ \E s \in Tabs : GoTasks(s)
  \/ \E s \in Tabs : GoClients(s)
  \/ \E s \in Tabs : FetchTasksDone(s, "ok")
  \/ \E s \in Tabs : FilterEffect(s)
  \/ \E s \in Tabs : GoTaskFormNew(s, "ok")
  \/ \E s \in Tabs, i \in 1..MaxTasks : GoTaskFormEdit(s, i, "ok")
  \/ \E s \in Tabs : FetchTaskDone(s, "ok")
  \/ \E s \in Tabs : \E data \in TaskFormData(s) :
       data.due_date = IsoDateText(ClockStart \div 24) /\ SubmitTaskForm(s, data, "ok")
  \/ \E s \in Tabs : FetchClientsDone(s, "ok")
  \/ \E s \in Tabs, i \in 1..MaxClients : SetDeleteId(s, i)
  \/ \E s \in Tabs : HandleDelete(s, "ok")
  \/ \E s \in Tabs : GoClientFormNew(s)
  \/ \E s \in Tabs, i \in 1..MaxClients : GoClientFormEdit(s, i)
  \/ \E s \in Tabs : FetchClientDone(s, "ok")
  \/ \E s \in Tabs, data \in ClientFormData : SubmitClientForm(s, data, "ok")

SpecTabs == Init /\ [][NextTabs]_vars

\* the application: sign-up, sign-in and the screens of tasks and clients.
\* Every fetch is answered; a save, a toggle or a deletion may fail.
NextApp ==
  \/ Tick
  \/ \E u \in Users : SignUp(u)
  \/ \E s \in Sessions, u \in Users : Login(s, u)
  \/ \E s \in Sessions : FetchDashboardDone(s, "ok")
  \/ \E s \in Sessions : GoTasks(s)
  \/ \E s \in Sessions : GoClients(s)
  \/ \E s \in Sessions : FetchTasksDone(s, "ok")
  \/ \E s \in Sessions, f \in StatusFilters : SetStatusFilter(s, f)
  \/ \E s \in Sessions : FilterEffect(s)
  \/ \E s \in Sessions, i \in 1..MaxTasks, o \in Outcomes : ToggleTaskComplete(s, i, o)
  \/ \E s \in Sessions : GoTaskFormNew(s, "ok")
  \/ \E s \in Sessions, i \in 1..MaxTasks : GoTaskFormEdit(s, i, "ok")
  \/ \E s \in Sessions : FetchTaskDone(s, "ok")
  \/ \E s \in Sessions, o \in Outcomes : \E data \in TaskFormData(s) :
       SubmitTaskForm(s, data, o)
  \/ \E s \in Sessions : FetchClientsDone(s, "ok")
  \/ \E s \in Sessions, i \in 1..MaxClients : SetDeleteId(s, i)
  \/ \E s \in Sessions : CancelDelete(s)
  \/ \E s \in Sessions, o \in Outcomes : HandleDelete(s, o)
  \/ \E s \in Sessions : GoClientFormNew(s)
  \/ \E s \in Sessions, i \in 1..MaxClients : GoClientFormEdit(s, i)
  \/ \E s \in Sessions : FetchClientDone(s, "ok")
  \/ \E s \in Sessions, data \in ClientFormData, o \in Outcomes :
       SubmitClientForm(s, data, o)

SpecApp == Init /\ [][NextApp]_vars

\* every screen with every outcome of its calls.  A submit handler is taken
\* in two steps, up to its await and from the answer on, so that its
\* loading flag is seen while the call is on its way.  One user, one due
\* date and no clock: the data plays no part here.
NextScreens ==
  \/ SignUp("u1")
  \/ \E s \in Sessions : GoRegister(s)
  \/ \E s \in Sessions : GoLogin(s)
  \/ \E s \in Sessions : GoForgot(s)
  \/ \E s \in Sessions : BeginSubmit(s)
  \/ \E s \in Sessions : BeginPassword(s)
  \/ \E s \in Sessions, data \in RegisterData, o \in Outcomes :
       ui[s].loading /\ RegisterSubmit(s, "u2", data, o)
  \/ \E s \in Sessions : ui[s].loading /\ Login(s, "u1")
  \/ \E s \in Sessions, u \in Users, o \in Outcomes :
       ui[s].loading /\ LoginFailed(s, u, o)
  \/ \E s \in Sessions, o \in Outcomes : ui[s].loading /\ SubmitForgot(s, o)
  \/ \E s \in Sessions : GoProfile(s)
  \/ \E s \in Sessions, data \in ProfileData, o \in Outcomes :
       ui[s].loading /\ SubmitProfile(s, data, o)
  \/ \E s \in Sessions, o \in Outcomes : ui[s].loadingPassword /\ SubmitPassword(s, o)
  \/ \E s \in Sessions : GoDashboard(s)
  \/ \E s \in Sessions, o \in Outcomes : FetchDashboardDone(s, o)
  \/ \E s \in Sessions : GoTasks(s)
  \/ \E s \in Sessions : GoClients(s)
  \/ \E s \in Sessions, o \in Outcomes : FetchTasksDone(s, o)
  \/ \E s \in Sessions : FilterEffect(s)
  \/ \E s \in Sessions, i \in 1..MaxTasks, o \in Outcomes : ToggleTaskComplete(s, i, o)
  \/ \E s \in Sessions, o \in Outcomes : GoTaskFormNew(s, o)
  \/ \E s \in Sessions, i \in 1..MaxTasks, o \in Outcomes : GoTaskFormEdit(s, i, o)
  \/ \E s \in Sessions, o \in Outcomes : FetchTaskDone(s, o)
  \/ \E s \in Sessions, o \in Outcomes : \E data \in TaskFormData(s) :
       /\ ui[s].loading
       /\ data.due_date = IsoDateText(ClockStart \div 24)
       /\ SubmitTaskForm(s, data, o)
  \/ \E s \in Sessions, o \in Outcomes : FetchClientsDone(s, o)
  \/ \E s \in Sessions, i \in 1..MaxClients : SetDeleteId(s, i)
  \/ \E s \in Sessions : CancelDelete(s)
  \/ \E s \in Sessions, o \in Outcomes : HandleDelete(s, o)
  \/ \E s \in Sessions : GoClientFormNew(s)
  \/ \E s \in Sessions, i \in 1..MaxClients : GoClientFormEdit(s, i)
  \/ \E s \in Sessions, o \in Outcomes : FetchClientDone(s, o)
  \/ \E s \in Sessions, data \in ClientFormData, o \in Outcomes :
       ui[s].loading /\ SubmitClientForm(s, data, o)

SpecScreens == Init /\ [][NextScreens]_vars

\* the forms, left while a call of theirs is on its way; the calls of a
\* screen that is shown are all answered
NextLeave ==
  \/ SignUp("u1")
  \/ \E s \in Sessions : Login(s, "u1")
  \/ \E s \in Sessions : FetchDashboardDone(s, "ok")
  \/ \E s \in Sessions : GoClients(s)
  \/ \E s \in Sessions : FetchClientsDone(s, "ok")
  \/ \E s \in Sessions : GoClientFormNew(s)
  \/ \E s \in Sessions, i \in 1..MaxClients : GoClientFormEdit(s, i)
  \/ \E s \in Sessions : FetchClientDone(s, "ok")
  \/ \E s \in Sessions : BeginSubmit(s)
  \/ \E s \in Sessions, data \in ClientFormData :
       ui[s].loading /\ SubmitClientForm(s, data, "ok")
  \/ \E s \in Sessions : GoTasks(s)
  \/ \E s \in Sessions : FetchTasksDone(s, "ok")
  \/ \E s \in Sessions : FilterEffect(s)
  \/ \E s \in Sessions : GoTaskFormNew(s, "ok")
  \/ \E s \in Sessions, i \in 1..MaxTasks : GoTaskFormEdit(s, i, "ok")
  \/ \E s \in Sessions : FetchTaskDone(s, "ok")
  \/ \E s \in Sessions : \E data \in TaskFormData(s) :
       /\ ui[s].loading
       /\ data.due_date = IsoDateText(ClockStart \div 24)
       /\ SubmitTaskForm(s, data, "ok")
  \/ \E s \in Sessions : LeaveForm(s)
  \/ \E s \in Sessions, data \in ClientFormData, o \in Outcomes : LateDone(s, data, o)

SpecLeave == Init /\ [][NextLeave]_vars

\* the Tasks screen of one user with the answers of fetchTasks on their way
\* back while the user goes on; every task is given the same due date
NextFetch ==
  \/ SignUp("u1")
  \/ \E s \in Sessions : Login(s, "u1")
  \/ \E s \in Sessions : GoTasks(s)
  \/ \E s \in Sessions : FetchTasksServed(s)
  \/ \E s \in Sessions, k \in 1..MaxResponses : FetchTasksDelivered(s, k)
  \/ \E s \in Sessions : FilterEffect(s)
  \/ \E s \in Sessions, i \in 1..MaxTasks : ToggleTaskComplete(s, i, "ok")
  \/ \E s \in Sessions : GoTaskFormNew(s, "ok")
  \/ \E s \in Sessions : \E data \in TaskFormData(s) :
       data.due_date = IsoDateText(ClockStart \div 24) /\ SubmitTaskForm(s, data, "ok")

SpecFetch == Init /\ [][NextFetch]_vars

\* the Dashboard of one tab, its queries answered one by one, while the
\* same user works on tasks and clients in any tab
NextDash ==
  \/ SignUp("u1")
  \/ \E s \in Tabs : Login(s, "u1")
  \/ \E s \in Sessions : DashboardQuery(s)
  \/ \E s \in Sessions : DashboardLoaded(s)
  \/ \E s \in Tabs : GoDashboard(s)
  \/ \E s \in Tabs : GoTasks(s)
  \/ \E s \in Tabs : FetchTasksDone(s, "ok")
  \/ \E s \in Tabs : FilterEffect(s)
  \/ \E s \in Tabs, i \in 1..MaxTasks : ToggleTaskComplete(s, i, "ok")
  \/ \E s \in Tabs : GoTaskFormNew(s, "ok")
  \/ \E s \in Tabs : \E data \in TaskFormData(s) : SubmitTaskForm(s, data, "ok")

SpecDash == Init /\ [][NextDash]_vars

----------------------------------------------------------------------------
(* Properties of the backend: Spec *)

CallOps == {"selectClients", "selectTasks", "updateClient", "updateTask",
            "deleteClient", "deleteTask"}

\* C1: ownership isolation.  Whatever select, update or delete call a user v
\* issues, a select never returns a Client or Task row owned by another
\* user, and every row owned by another user still exists afterwards with
\* every field unchanged.
C1_IsolationStep ==
  \A v \in Users :
    (last'.by = v /\ last'.op \in CallOps) =>
      /\ last'.op = "selectClients" => \A c \in last'.rows : clients[c].user_id = v
      /\ last'.op = "selectTasks" => \A t \in last'.rows : tasks[t].user_id = v
      /\ \A c \in DOMAIN clients :
           clients[c].user_id # v => c \in DOMAIN clients' /\ clients'[c] = clients[c]
      /\ \A t \in DOMAIN tasks :
           tasks[t].user_id # v => t \in DOMAIN tasks' /\ tasks'[t] = tasks[t]

\* C1, for every step of every behaviour
C1_OwnershipIsolation == [][C1_IsolationStep]_vars

\* C2: every Client and Task row's user_id is the identity of the caller
\* that inserted it: no insert creates a row for another identity and no
\* update moves a row to another owner.
C2_OwnerIsInserter ==
  /\ \A c \in DOMAIN clients : clients[c].user_id = insertedBy.clients[c]
  /\ \A t \in DOMAIN tasks : tasks[t].user_id = insertedBy.tasks[t]

\* an update whose payload carries user_id went through on an existing row
C2_Witness ==
  /\ last.op \in {"updateClient", "updateTask"}
  /\ last.arg = last.by
  /\ last.rows # {}
  /\ ~last.err

\* C8: deleting a Client deletes no Task: the Tasks that referenced it stay,
\* with client_id null and every other field unchanged, and every other
\* Task is unchanged.
C8_DeleteClientStep ==
  \A c \in DOMAIN clients :
    (c \notin DOMAIN clients' /\ profiles' = profiles) =>
      tasks' = [t \in DOMAIN tasks |->
                  IF tasks[t].client_id = c THEN [tasks[t] EXCEPT !.client_id = NULL]
                  ELSE tasks[t]]

\* C8, for every step that removes a client
C8_ClientDeleteKeepsTasks == [][C8_DeleteClientStep]_vars

\* a client was deleted while one task referenced it and another did not
C8_Witness ==
  /\ last.op = "deleteClient"
  /\ last.rows # {}
  /\ last.refs # {}
  /\ \E t \in DOMAIN tasks : t \in last.refs /\ tasks[t].client_id = NULL
  /\ \E t \in DOMAIN tasks : t \notin last.refs

\* C10: deleting an identity removes its Profile and every Client and Task
\* the profile owns, leaves the rows of every other profile unchanged, and
\* afterwards no Client or Task row references the deleted profile.
C10_DeleteIdentityStep ==
  \A u \in authUsers :
    u \notin authUsers' =>
      /\ u \notin ProfileIds(profiles')
      /\ \A c \in DOMAIN clients' : clients'[c].user_id # u
      /\ \A t \in DOMAIN tasks' : tasks'[t].user_id # u
      /\ \A c \in DOMAIN clients :
           clients[c].user_id # u => c \in DOMAIN clients' /\ clients'[c] = clients[c]
      /\ \A t \in DOMAIN tasks :
           tasks[t].user_id # u => t \in DOMAIN tasks' /\ tasks'[t] = tasks[t]

\* C10, for every step that removes an identity
C10_IdentityDeleteCascade == [][C10_DeleteIdentityStep]_vars

----------------------------------------------------------------------------
(* Properties of the accounts: SpecAuth *)

\* the last step was a sign-up, direct or from the Register screen, that
\* created the identity last.by
SignedUp == last.op \in {"signUp", "register"} /\ ~last.err

\* the profile rows of an identity
ProfilesOf(u) == {p \in profiles : p.id = u}

\* C11: after every sign-up whose metadata carries no account-category
\* value, the Profile created for the new identity has account_type
\* "contador".
C11_DefaultAccountType ==
  (SignedUp /\ "account_type" \notin DOMAIN last.meta) =>
    /\ ProfilesOf(last.by) # {}
    /\ \A p \in ProfilesOf(last.by) : p.account_type = "contador"

\* a sign-up with a name and no category went through
C11_Witness ==
  /\ SignedUp
  /\ DOMAIN last.meta = {"name"}
  /\ \E p \in ProfilesOf(last.by) : p.account_type = "contador"

\* C12: every sign-up whose metadata carries an account-category value that
\* is not "contador" or "escritorio" succeeds, and the Profile created has
\* account_type "contador".
C12_UnknownAccountType ==
  (/\ last.op = "signUp"
   /\ last.arg # "fault"
   /\ "account_type" \in DOMAIN last.meta
   /\ last.meta["account_type"] \notin AccountType) =>
    /\ ~last.err
    /\ \E p \in ProfilesOf(last.by) : p.account_type = "contador"

\* C13: after every sign-up, the created Profile's name is the metadata
\* display name when one is supplied and the sign-up e-mail when none is,
\* and its email is the sign-up e-mail.
C13_ProfileNameAndEmail ==
  SignedUp =>
    /\ ProfilesOf(last.by) # {}
    /\ \A p \in ProfilesOf(last.by) :
         /\ p.email = EmailOf[last.by]
         /\ p.name = IF "name" \in DOMAIN last.meta THEN last.meta["name"]
                     ELSE EmailOf[last.by]

\* a sign-up without a name created a profile named by the e-mail
C13_Witness ==
  /\ SignedUp
  /\ "name" \notin DOMAIN last.meta
  /\ \E p \in ProfilesOf(last.by) : p.name = EmailOf[last.by]

\* C14: each existing identity has exactly one Profile row, and every
\* Profile row's id is an existing identity.
C14_OneProfilePerIdentity ==
  /\ \A u \in authUsers : Cardinality(ProfilesOf(u)) = 1
  /\ \A p \in profiles : p.id \in authUsers

\* a user's direct insert of a profile for itself was refused, while an
\* identity has been deleted
C14_Witness ==
  /\ last.op = "insertProfile"
  /\ last.arg = last.by
  /\ last.err
  /\ goneUsers # {}
  /\ Cardinality(ProfilesOf(last.by)) = 1

\* C15: when the Profile insertion of a sign-up fails, the sign-up fails:
\* identities and profiles are as before the attempt, and the Register
\* screen shows the error notification and stays on the screen.
C15_FailedSignUpStep ==
  (/\ last'.err
   /\ \/ last'.op = "signUp"
      \/ last'.op = "register" /\ last'.arg = "profile") =>
    /\ authUsers' = authUsers
    /\ profiles' = profiles
    /\ last'.op = "register" =>
         /\ last'.toast = "Erro ao criar conta"
         /\ ui'[last'.sess].screen = "register"
         /\ ui'[last'.sess].user = NoUser

\* C15, for every sign-up whose profile insertion fails
C15_ProfileFailureFailsSignUp == [][C15_FailedSignUpStep]_vars

\* the Register screen got the error of a refused profile insertion
C15_Witness ==
  /\ last.op = "register"
  /\ last.err
  /\ last.arg = "profile"
  /\ last.by \notin authUsers
  /\ ui[last.sess].screen = "register"

\* C16: at every successful sign-in the Profile's last_login becomes the
\* time of that sign-in, and last_login never decreases.
C16_SignInStep ==
  /\ \A s \in Sessions :
       (ui[s].user = NoUser /\ ui'[s].user # NoUser) =>
         \A p \in profiles' : p.id = ui'[s].user => p.last_login = now'
  /\ \A p \in profiles : \A q \in profiles' :
       p.id = q.id => q.last_login >= p.last_login

\* C16, for every step
C16_LastLoginTracksSignIn == [][C16_SignInStep]_vars

\* C18: a Profile row disappears only when its identity is deleted, never
\* by a direct delete call; and a step of the application (the screens)
\* leaves id, email, account_type, created_at and last_login of every
\* existing Profile unchanged.
C18_ProfileFrameStep ==
  /\ \A p \in profiles : p.id \in authUsers' => ProfilesOf(p.id)' # {}
  /\ last'.op = "deleteProfile" => profiles' = profiles
  /\ last'.sess # NoSession =>
       \A p \in profiles : \E q \in profiles' :
         /\ q.id = p.id /\ q.email = p.email /\ q.account_type = p.account_type
         /\ q.created_at = p.created_at /\ q.last_login = p.last_login

\* C18, for every step
C18_ProfileFrame == [][C18_ProfileFrameStep]_vars

\* the profile form changed the name of a profile created earlier
C18_Witness ==
  /\ last.op = "submitProfile"
  /\ ~last.err
  /\ last.rows # {}
  /\ \E p \in ProfilesOf(last.by) : p.name = "Ana L." /\ p.created_at < now

----------------------------------------------------------------------------
(* Properties of the forms in two tabs: SpecTabs *)

\* C17: through the screens, in tabs of the same or of different users,
\* every Task's client_id is null or the id of an existing Client whose
\* user_id is the Task's user_id.
C17_TaskClientSameOwner ==
  \A t \in DOMAIN tasks :
    \/ tasks[t].client_id = NULL
    \/ /\ tasks[t].client_id \in DOMAIN clients
       /\ clients[tasks[t].client_id].user_id = tasks[t].user_id

\* two users each have a task that references a client
C17_Witness ==
  \E t1, t2 \in DOMAIN tasks :
    /\ tasks[t1].user_id # tasks[t2].user_id
    /\ tasks[t1].client_id # NULL
    /\ tasks[t2].client_id # NULL

----------------------------------------------------------------------------
(* Properties of the application: SpecApp *)

\* the rows a Tasks screen shows
Shown(s) == IF ui[s].screen = "tasks" THEN ui[s].filteredTasks ELSE << >>

\* what the date comparison of the claims gives for a due date and today
DateBadge(due, today) ==
  IF due < today THEN "Atrasada" ELSE IF due = today THEN "Hoje" ELSE "Pendente"

\* C3: for every task shown with stored status "pendente", the badge of the
\* Tasks list and of the Dashboard is "Atrasada" when due_date < today,
\* "Hoje" when due_date = today and "Pendente" when due_date > today, today
\* being the date the screens take as today; both screens give the same
\* badge.  Due dates have four-digit years (DueDates).
C3_PendingBadge ==
  \A s \in Sessions : \A i \in DOMAIN Shown(s) :
    LET it == Shown(s)[i]
    IN  it.status = "pendente" =>
          /\ Tasks_getStatusBadge(it.status, it.due_date)
               = DateBadge(DateIn(it.due_date), UtcDay(now))
          /\ Dashboard_getStatusBadge(it.status, it.due_date)
               = Tasks_getStatusBadge(it.status, it.due_date)

\* a list showing a late pending task and a pending task due today
C3_Witness ==
  \E s \in Sessions : \E i, j \in DOMAIN Shown(s) :
    /\ Shown(s)[i].status = "pendente" /\ Shown(s)[j].status = "pendente"
    /\ Tasks_getStatusBadge("pendente", Shown(s)[i].due_date) = "Atrasada"
    /\ Tasks_getStatusBadge("pendente", Shown(s)[j].due_date) = "Hoje"

\* C4: a task whose status is "concluida" is shown as "Concluida" whatever
\* its due date; and when a task shown as not completed is toggled, the
\* stored task is completed and its badge is "Concluida", late or not.
C4_CompletedBadge ==
  /\ \A s \in Sessions : \A i \in DOMAIN Shown(s) :
       Shown(s)[i].status = "concluida" =>
         Tasks_getStatusBadge(Shown(s)[i].status, Shown(s)[i].due_date) = "Concluida"
  /\ (last.op = "toggleTaskComplete" /\ ~last.err) =>
       \A i \in DOMAIN Shown(last.sess) :
         LET it == Shown(last.sess)[i]
         IN  (it.id \in last.rows /\ it.status # "concluida") =>
               /\ tasks[it.id].status = "concluida"
               /\ Tasks_getStatusBadge(tasks[it.id].status,
                                       IsoDateText(tasks[it.id].due_date)) = "Concluida"

\* a task shown as "Atrasada" has just been marked completed
C4_Witness ==
  /\ last.op = "toggleTaskComplete" /\ ~last.err
  /\ \E i \in DOMAIN Shown(last.sess) :
       LET it == Shown(last.sess)[i]
       IN  /\ it.id \in last.rows
           /\ Tasks_getStatusBadge(it.status, it.due_date) = "Atrasada"
           /\ tasks[it.id].status = "concluida"
           /\ tasks[it.id].due_date < UtcDay(now)

\* offsets of the viewer's local time from UTC, in hours
ViewerOffsets == {-3, 0}
LocalDay(instant, offset) == (instant + offset) \div 24

\* C5: for every viewer time-zone offset and instant, a pending task shown
\* is classified overdue, by the badge and by the overdue filter, exactly
\* when its due date is strictly earlier than the viewer's local date.
C5_LocalToday ==
  \A off \in ViewerOffsets : \A s \in Sessions : \A i \in DOMAIN Shown(s) :
    LET it == Shown(s)[i]
        late == DateIn(it.due_date) < LocalDay(now, off)
    IN  it.status = "pendente" =>
          /\ (Tasks_getStatusBadge(it.status, it.due_date) = "Atrasada") <=> late
          /\ (Dashboard_getStatusBadge(it.status, it.due_date) = "Atrasada") <=> late
          /\ (FilterTasks(<<it>>, "overdue") = <<it>>) <=> late

\* C6: with the "overdue" filter selected and applied, the filtered list is
\* exactly the fetched tasks with status "pendente" and due_date < today, in
\* the fetched order, today being the date the effect took as today.
C6_OverdueFilter ==
  \A s \in Sessions :
    (ui[s].screen = "tasks" /\ ui[s].statusFilter = "overdue" /\ ~ui[s].effectPending) =>
      ui[s].filteredTasks =
        SelectSeq(ui[s].tasks,
                  LAMBDA t : t.status = "pendente"
                             /\ DateIn(t.due_date) < DateIn(ui[s].filterToday))

\* the overdue filter keeps one fetched task and drops another
C6_Witness ==
  \E s \in Sessions :
    /\ ui[s].screen = "tasks" /\ ui[s].statusFilter = "overdue" /\ ~ui[s].effectPending
    /\ Len(ui[s].filteredTasks) = 1
    /\ Len(ui[s].tasks) = 2

\* C7: every persisted Task has status "pendente" or "concluida".
C7_NoPersistedAtrasada ==
  \A t \in DOMAIN tasks : tasks[t].status \in {"pendente", "concluida"}

\* a task created by the form and completed by the toggle has been edited
\* through the form
C7_Witness ==
  /\ last.op = "updateTaskForm" /\ ~last.err
  /\ \E t \in last.rows : tasks[t].status = "concluida"

\* C9: confirming the deletion of a client on the Clients screen removes
\* the client and all tasks associated with it.
C9_DeleteStep ==
  (last'.op = "handleDelete" /\ ~last'.err) =>
    \A c \in last'.rows :
      /\ c \notin DOMAIN clients'
      /\ \A t \in DOMAIN tasks : tasks[t].client_id = c => t \notin DOMAIN tasks'

\* C9, for every confirmed deletion
C9_DeleteRemovesTasks == [][C9_DeleteStep]_vars

\* the handlers that change rows of tasks or clients
MutationOps == {"toggleTaskComplete", "handleDelete", "updateTaskForm", "insertTaskForm",
                "updateClientForm", "insertClientForm"}

\* C19: a successful toggle leaves the lists the screen holds as they are
\* and starts a fetch of the tasks; a successful client deletion leaves the
\* list of clients as it is and starts a fetch of the clients; a successful
\* form save goes to the list screen, which mounts empty with its fetch
\* started; and a list held by a screen changes only by a fetch response.
C19_RefetchStep ==
  \A s \in Sessions :
    /\ (/\ last'.sess = s /\ last'.op \in MutationOps /\ ~last'.err
        /\ \/ last'.op # last.op \/ ui'[s] # ui[s]
           \/ tasks' # tasks \/ clients' # clients) =>
         /\ last'.op = "toggleTaskComplete" =>
              /\ ui'[s].screen = "tasks"
              /\ ui'[s].fetchPending = ui[s].fetchPending + 1
              /\ ui'[s].tasks = ui[s].tasks
              /\ ui'[s].filteredTasks = ui[s].filteredTasks
         /\ last'.op = "handleDelete" =>
              /\ ui'[s].screen = "clients"
              /\ ui'[s].fetchPending = ui[s].fetchPending + 1
              /\ ui'[s].clients = ui[s].clients
         /\ last'.op \in {"updateTaskForm", "insertTaskForm"} =>
              ui'[s] = OpenTasks(ui[s].user)
         /\ last'.op \in {"updateClientForm", "insertClientForm"} =>
              ui'[s] = OpenClients(ui[s].user)
    /\ ui'[s].tasks # ui[s].tasks =>
         \/ last'.op = "fetchTasks" /\ ~last'.err
         \/ ui'[s].tasks = << >> /\ ui'[s].filteredTasks = << >>
    /\ ui'[s].clients # ui[s].clients =>
         \/ last'.op = "fetchClients" /\ ~last'.err
         \/ ui'[s].clients = << >>

\* C19, for every step
C19_MutationsRefetch == [][C19_RefetchStep]_vars

\* a task was completed, the list still shows it as it was, and the fetch
\* of the tasks is on its way
C19_Witness ==
  /\ last.op = "toggleTaskComplete" /\ ~last.err
  /\ ui[last.sess].fetchPending = 1
  /\ \E i \in DOMAIN Shown(last.sess) :
       LET it == Shown(last.sess)[i]
       IN  it.id \in last.rows /\ it.status # tasks[it.id].status

----------------------------------------------------------------------------
(* Properties of the screens: SpecScreens *)

\* the handlers that end with setLoading(false)
SubmitOps == {"register", "login", "submitForgot", "submitProfile",
              "updateTaskForm", "insertTaskForm", "updateClientForm", "insertClientForm"}

\* the fetches of the list screens and of the dashboard
ListFetchOps == {"fetchTasks", "fetchClients", "fetchDashboard"}

\* C20: when a call of a screen is answered, with success, an error result
\* or an exception, the flag of the handler is off afterwards: loading
\* after a submit and after a fetch of a list or of the dashboard,
\* loadingPassword after the password form, fetching after the fetch of an
\* edit form, and deleteId is null after handleDelete.  A failed submit
\* leaves the user on the same screen.  A list screen or the dashboard is
\* loading only while a fetch is on its way.
C20_CompletionStep ==
  \A s \in Sessions :
    /\ (last'.sess = s /\ (last'.op # last.op \/ ui'[s] # ui[s])) =>
         /\ last'.op \in SubmitOps =>
              /\ ~ui'[s].loading \/ (~last'.err /\ ui'[s].screen # ui[s].screen)
              /\ last'.err => ui'[s].screen = ui[s].screen /\ ui'[s].user = ui[s].user
         /\ last'.op = "submitPassword" => ~ui'[s].loadingPassword
         /\ last'.op \in {"fetchTask", "fetchClient"} => ~ui'[s].fetching
         /\ last'.op \in ListFetchOps => ~ui'[s].loading
         /\ last'.op = "handleDelete" => ui'[s].deleteId = NULL
    /\ (ui'[s].screen \in {"tasks", "clients", "dashboard"} /\ ui'[s].loading) =>
         ui'[s].fetchPending > 0

\* C20, for every step
C20_Unblocked == [][C20_CompletionStep]_vars

\* a client deletion failed and the dialog is closed
C20_Witness ==
  /\ last.op = "handleDelete" /\ last.err
  /\ ui[last.sess].screen = "clients"
  /\ ui[last.sess].deleteId = NULL
  /\ ~ui[last.sess].loading

\* C21: a call of a screen that failed, with an error result or an
\* exception, showed a notification.
C21_FailureNotified ==
  (last.sess # NoSession /\ last.err) => last.toast # NoToast

----------------------------------------------------------------------------
(* Properties of calls that outlive their screen: SpecLeave *)

\* C22: when the call of a form that was left is answered, no notification
\* is shown and the screen the user is on stays as it is.
C22_LateStep ==
  \A s \in Sessions :
    (ui[s].orphan # NoCall /\ last'.sess = s /\ last'.op = ui[s].orphan.op) =>
       /\ ui'[s] = [ui[s] EXCEPT !.orphan = NoCall]
       /\ last'.toast = NoToast

\* C22, for every step
C22_LateResultDiscarded == [][C22_LateStep]_vars

----------------------------------------------------------------------------
(* Properties of the toggle and of the task form: SpecApp *)

\* what the claim says the toggle writes for a displayed status
C23_Written(shown) == IF shown = "concluida" THEN "pendente" ELSE "concluida"

\* C23: a successful toggle of a displayed task writes "pendente" when the
\* displayed status is "concluida" and "concluida" otherwise; only the
\* status of that task changes; and when the displayed status is the stored
\* one, "pendente" or "concluida", a second toggle would write the status
\* the task had before the first.
C23_ToggleStep ==
  \A s \in Sessions :
    (/\ last'.sess = s /\ last'.op = "toggleTaskComplete" /\ ~last'.err
     /\ ui'[s].fetchPending = ui[s].fetchPending + 1) =>
       /\ DOMAIN tasks' = DOMAIN tasks
       /\ \A t \in DOMAIN tasks \ last'.rows : tasks'[t] = tasks[t]
       /\ \A t \in last'.rows :
            \E i \in DOMAIN ui[s].filteredTasks :
              LET shown == ui[s].filteredTasks[i]
              IN  /\ shown.id = t
                  /\ tasks'[t] = [tasks[t] EXCEPT !.status = C23_Written(shown.status)]
                  /\ (shown.status = tasks[t].status /\ shown.status \in {"pendente", "concluida"})
                       => /\ tasks'[t].status # tasks[t].status
                          /\ NewStatus(tasks'[t].status) = tasks[t].status

\* C23, for every step
C23_ToggleWritesOpposite == [][C23_ToggleStep]_vars

\* a completed task was reopened by the toggle
C23_Witness ==
  /\ last.op = "toggleTaskComplete" /\ ~last.err
  /\ last.toast = "Tarefa reaberta"
  /\ \E t \in last.rows : t \in DOMAIN tasks /\ tasks[t].status = "pendente"

\* C28: a successful save of the task edit form sends neither status nor
\* created_at, leaves the status and the owner of every task as they were,
\* and changes no task but the edited one.
C28_EditStep ==
  \A s \in Sessions :
    (/\ last'.sess = s /\ last'.op = "updateTaskForm" /\ ~last'.err
     /\ ui[s].screen = "taskform" /\ ui'[s].screen = "tasks") =>
       /\ \A data \in TaskFormData(s) :
            DOMAIN TaskData(data, ui[s].user) \cap {"status", "created_at"} = {}
       /\ DOMAIN tasks' = DOMAIN tasks
       /\ \A t \in DOMAIN tasks :
            /\ tasks'[t].status = tasks[t].status
            /\ tasks'[t].user_id = tasks[t].user_id
            /\ t # ui[s].formId => tasks'[t] = tasks[t]

\* C28, for every step
C28_EditKeepsStatus == [][C28_EditStep]_vars

\* the edit form saved a completed task, and the task is still completed
C28_Witness ==
  /\ last.op = "updateTaskForm" /\ ~last.err
  /\ \E t \in last.rows : t \in DOMAIN tasks /\ tasks[t].status = "concluida"

----------------------------------------------------------------------------
(* Properties of answers on their way: SpecFetch *)

\* C24: a successful toggle that updated a task changed its stored status.
C24_FlipStep ==
  \A s \in Sessions :
    (/\ last'.sess = s /\ last'.op = "toggleTaskComplete" /\ ~last'.err
     /\ ui'[s].fetchPending = ui[s].fetchPending + 1) =>
       \A t \in last'.rows : tasks'[t].status # tasks[t].status

\* C24, for every step
C24_ToggleFlipsStored == [][C24_FlipStep]_vars

\* C25: when no fetch of the Tasks screen is on its way, the list the
\* screen holds is the list of the caller's stored tasks.
C25_ListIsStored ==
  \A s \in Sessions :
    (/\ ui[s].screen = "tasks" /\ ~ui[s].loading
     /\ ui[s].fetchPending = 0 /\ ui[s].responses = << >>) =>
       ui[s].tasks = FetchedTasks(ui[s].user)

\* whether a displayed task passes a status filter
C26_Passes(t, statusFilter) ==
  IF statusFilter = "overdue"
  THEN t.status = "pendente" /\ StrLess(t.due_date, TodayText)
  ELSE t.status = statusFilter

\* C26: while a status filter other than "all" is selected, every task of
\* the displayed filteredTasks passes it, the state right after an answer
\* of fetchTasks included.  The change of the Select is taken together
\* with the effect it starts.
C26_DisplayedPassFilter ==
  \A s \in Sessions :
    (/\ ui[s].screen = "tasks" /\ ui[s].statusFilter # "all"
     /\ ~(last.op = "setStatusFilter" /\ ui[s].effectPending)) =>
       \A i \in DOMAIN ui[s].filteredTasks :
         C26_Passes(ui[s].filteredTasks[i], ui[s].statusFilter)

\* the items of a list
C27_Items(list) == {list[i] : i \in DOMAIN list}

\* C27: for every stored task, as the backend returns it, the Tasks list
\* gives the badge "Atrasada" exactly when the task passes the filter
\* "overdue", today being the same for both; and what passes "overdue"
\* passes "pendente".
C27_BadgeIsOverdueFilter ==
  /\ \A t \in DOMAIN tasks :
       LET it == TaskItem(t)
       IN  (Tasks_getStatusBadge(it.status, it.due_date) = "Atrasada")
             <=> (FilterTasks(<<it>>, "overdue") = <<it>>)
  /\ \A u \in Users :
       C27_Items(FilterTasks(FetchedTasks(u), "overdue"))
         \subseteq C27_Items(FilterTasks(FetchedTasks(u), "pendente"))

\* a pending task is past its due date, and a completed one too
C27_Witness ==
  /\ \E t \in DOMAIN tasks :
       /\ tasks[t].status = "pendente"
       /\ Tasks_getStatusBadge("pendente", TaskItem(t).due_date) = "Atrasada"
  /\ \E t \in DOMAIN tasks :
       /\ tasks[t].status = "concluida"
       /\ StrLess(TaskItem(t).due_date, TodayText)

----------------------------------------------------------------------------
(* Properties of saves and deletions in two tabs: SpecTabs *)

\* C29: "Cliente atualizado", "Tarefa atualizada" and "Cliente excluido"
\* are shown only when the call changed or deleted a row.
C29_SuccessMeansRow ==
  (/\ last.op \in {"updateClientForm", "updateTaskForm", "handleDelete"}
   /\ last.toast \in {"Cliente atualizado", "Tarefa atualizada", "Cliente excluido"})
    => last.rows # {}

----------------------------------------------------------------------------
(* Properties of the Dashboard: SpecDash *)

\* C30: the counts a loaded Dashboard shows satisfy
\* todayTasks + overdueTasks <= pendingTasks.
C30_CountsConsistent ==
  \A s \in Sessions :
    (ui[s].screen = "dashboard" /\ ui[s].dash.step = 5) =>
       ui[s].stats.todayTasks + ui[s].stats.overdueTasks <= ui[s].stats.pendingTasks

====
